---- MODULE Spec2Model ----
(***************************************************************************)
(* State-machine model of the Okta IGA backup system                       *)
(* (src/okta_iga/backup_system.py): the two-phase orchestrator             *)
(* run_complete_backup, the per-endpoint pipeline                          *)
(* backup_endpoint_with_deep_details (pagination, detail enrichment), the  *)
(* resource-id registry and the four semaphores.                           *)
(*                                                                         *)
(* asyncio runs one task at a time and switches tasks only at an await     *)
(* that blocks, so every action below is one such atomic segment: from the *)
(* point a task is resumed up to its next blocking await.                  *)
(***************************************************************************)
EXTENDS Integers, Sequences, FiniteSets, TLC

VARIABLES
    test_mode,              \* self.test_mode
    server,                 \* what the server holds for each endpoint
    enabled_global,         \* names with is_global_endpoint_enabled(name)
    enabled_resource,       \* names with is_resource_endpoint_enabled(name)
    orch,                   \* position of run_complete_backup
    backup_summary,         \* the backup_summary dict of run_complete_backup
    summary_writes,         \* number of times backup_summary.json was written
    collected_resource_ids, \* self.collected_resource_ids
    available_resources,    \* the list returned by get_collected_resource_ids
    run,                    \* one record per call of backup_endpoint_with_deep_details
    rend,                   \* one record per call of process_resource_endpoint
    api_semaphore,          \* free permits of self.api_semaphore
    endpoint_semaphore,     \* free permits of self.endpoint_semaphore
    detail_semaphore,       \* free permits of self.detail_semaphore
    resource_semaphore,     \* free permits of self.resource_semaphore
    now,                    \* time.time(), in seconds since construction
    limiter,                \* the rate limiter: its configuration and self.request_count,
                            \* self.start_time, self.rate_limit_lock
    call,                   \* one record per caller of make_request
    client,                 \* one call of ApiClient._request
    boot,                   \* position of the construction and of __aenter__
    auth,                   \* an OktaAuthenticator: credentials, self.access_token,
                            \* self.token_expires_at and its token requests
    hdr,                    \* one record per caller of get_headers
    pipe                    \* one call of _run_pipeline_async

\* the state of the backup run
backup_vars == <<test_mode, server, enabled_global, enabled_resource, orch,
                 backup_summary, summary_writes, collected_resource_ids,
                 available_resources, run, rend, api_semaphore, endpoint_semaphore,
                 detail_semaphore, resource_semaphore>>

\* the state of the transport below a request of the run
transport_vars == <<now, limiter, call>>
\* the state of the authenticator below a request
auth_vars == <<auth, hdr>>
\* what the pipeline client and the transport studied alone leave untouched
beyond_transport_but_client ==
    <<test_mode, server, enabled_global, enabled_resource, orch,
      backup_summary, summary_writes, collected_resource_ids,
      available_resources, run, rend, endpoint_semaphore,
      detail_semaphore, resource_semaphore, boot, auth_vars, pipe>>
beyond_transport == <<test_mode, server, enabled_global, enabled_resource, orch,
                      backup_summary, summary_writes, collected_resource_ids,
                      available_resources, run, rend, endpoint_semaphore,
                      detail_semaphore, resource_semaphore, client, boot, auth_vars,
                      pipe>>

vars == <<backup_vars, transport_vars, client, boot, auth_vars, pipe>>

-----------------------------------------------------------------------------
(* Bounds of the model.                                                    *)

\* longest chain of list pages, and most objects on one page, that the
\* server holds for an endpoint studied alone
MaxPages == 2
MaxPageLen == 2
\* the same for each endpoint of a run with several endpoints
OrchPages == 1
OrchPageLen == 1
\* capacities of the four semaphores (configuration values)
max_concurrent_api_calls == 1
max_concurrent_endpoints == 2
max_detail_calls_per_endpoint == 1
max_resource_discovery == 1
\* largest capacity of a semaphore when the capacities are varied
MaxPermits == 2
\* tasks that call make_request when the transport is studied alone, calls
\* each of them makes, and the time up to which the clock is let run freely
MaxCallers == 2
MaxCalls == 1
MaxTime == 61
\* consecutive 429 answers the server gives to one request of the pipeline
\* client
MaxThrottled == 4
\* calls of get_headers each caller makes when the authenticator is studied
\* alone, and the time up to which its clock runs
MaxHeaderCalls == 2
MaxAuthTime == 600
\* most items one fetch of the staged pipeline returns
MaxItems == 2

\* rate-limiting configuration read by the transport (defaults of __init__)
retry_429_delay == 10
max_retry_delay == 300
\* seconds before its expiry from which a token counts as expired
safety_margin == 300

-----------------------------------------------------------------------------
(* The endpoint catalog.                                                   *)

\* get_global_endpoints(): the keys each entry carries that the pipeline reads
global_endpoints ==
    [n \in {"campaigns", "reviews", "request_types", "requests_v1", "requests_v2",
            "request_settings_global", "entitlement_bundles", "collections",
            "risk_rules", "delegates"} |->
        [list |-> TRUE,
         detail |-> n # "request_settings_global",
         resource_list |-> FALSE,
         requires_filter |-> FALSE,
         filter_template |-> FALSE,
         list_only |-> FALSE]]

\* get_resource_endpoints()
resource_endpoints ==
    [n \in {"grants", "entitlements", "request_conditions", "request_settings",
            "request_sequences", "principal_entitlements", "principal_access"} |->
        [list |-> n \in {"grants", "entitlements", "principal_entitlements",
                         "principal_access"},
         detail |-> n \in {"grants", "entitlements", "request_conditions",
                           "request_sequences"},
         resource_list |-> n \in {"request_conditions", "request_settings",
                                  "request_sequences"},
         requires_filter |-> n \in {"grants", "entitlements", "principal_entitlements",
                                    "principal_access"},
         filter_template |-> n \in {"grants", "entitlements", "principal_entitlements",
                                    "principal_access"},
         list_only |-> n \in {"grants", "request_sequences"}]]

\* The endpoint_name argument of backup_endpoint_with_deep_details: the catalog
\* key for a global endpoint, f"resources/{resource_id}/{object_type}" for a
\* per-resource sub-run.
GlobalName(object_type) == [scope |-> "", rid |-> "", type |-> object_type]
ResourceEndpointName(resource_id, object_type) ==
    [scope |-> "resources", rid |-> resource_id, type |-> object_type]

-----------------------------------------------------------------------------
(* JSON values exchanged with the server.                                  *)

\* A listed object: its 'id' ("" when the key is missing), its 'resourceId'
\* ("" when missing or empty) and the 'resourceId' of each entry of
\* resourceSettings.targetResources.
Object(id, resourceId, targets) ==
    [id |-> id, resourceId |-> resourceId, targets |-> targets]

\* An entry of targetResources that is not a mapping (target.get raises
\* AttributeError on it).
NotAMapping == "<not a mapping>"

\* The objects the server serves: one referencing resources r1 and r2, one
\* without an 'id', one referencing no resource, and one whose second
\* targetResources entry is not a mapping.
ObjA == Object("a", "r1", <<"r1", "r2">>)
ObjNoId == Object("", "r2", <<"r2">>)
ObjPlain == Object("p", "", <<>>)
ObjMalformed == Object("m", "r3", <<"r3", NotAMapping, "r4">>)

RECURSIVE SumSeq(_)
SumSeq(s) == IF s = <<>> THEN 0 ELSE Head(s) + SumSeq(Tail(s))

\* The targetResources entries read before one raises (lines 360-361)
BeforeMalformed(targets) ==
    {i \in DOMAIN targets : \A j \in 1..i : targets[j] # NotAMapping}

\* extract_resource_ids_from_object without the tests on endpoint_name: both
\* walks are made for an object of any endpoint.
ExtractResourceIdsOfAnyName(obj_data, endpoint_name) ==
    (IF obj_data.resourceId # "" THEN {obj_data.resourceId} ELSE {})
    \cup ({obj_data.targets[i] : i \in BeforeMalformed(obj_data.targets)} \ {""})

\* extract_resource_ids_from_object: the ids the call adds to the registry;
\* the ids of the entries before a malformed one are added before the
\* exception is caught (lines 364-366).
ExtractResourceIds(obj_data, endpoint_name) ==
    IF endpoint_name = GlobalName("reviews")
    THEN IF obj_data.resourceId # "" THEN {obj_data.resourceId} ELSE {}
    ELSE IF endpoint_name = GlobalName("campaigns")
    THEN {obj_data.targets[i] : i \in BeforeMalformed(obj_data.targets)} \ {""}
    ELSE {}

\* set.add for each extracted id
RegistryAdd(registry, ids) == registry \cup ids

-----------------------------------------------------------------------------
(* HTTP responses as make_request hands them to its caller.                *)

\* A URL of a next link: absent (None), or a URL whose query carries
\* after=<after> ("" when the query has no 'after' parameter).
NoUrl == [present |-> FALSE, after |-> ""]
Url(after) == [present |-> TRUE, after |-> after]

\* The Link response header: none with rel="next", a well-formed
\* <url>; rel="next" entry, or a rel="next" entry without <...>.
NoLink == [rel_next |-> FALSE, wellformed |-> TRUE, url |-> NoUrl]
Link(url) == [rel_next |-> TRUE, wellformed |-> TRUE, url |-> url]
BadLink == [rel_next |-> TRUE, wellformed |-> FALSE, url |-> NoUrl]

\* The value a mapping body holds under one key: a list of objects, or a
\* truthy value that is no list (list.extend raises TypeError on it).
ListValue(items) == [is_list |-> TRUE, items |-> items]
ScalarValue == [is_list |-> FALSE, items |-> <<>>]

\* A response body: a bare array, a mapping (the values under the keys it
\* offers among 'data', 'results', 'items', endpoint_name.rstrip('s') and
\* endpoint_name, whether it has a truthy 'id', and its 'next' field), or
\* any other JSON value.
ArrayBody(items) ==
    [shape |-> "array", items |-> items, m |-> <<>>, id |-> FALSE,
     has_next |-> FALSE, next |-> NoUrl]
MappingBody(m, id, has_next, next) ==
    [shape |-> "mapping", items |-> <<>>, m |-> m, id |-> id,
     has_next |-> has_next, next |-> next]
ScalarBody ==
    [shape |-> "scalar", items |-> <<>>, m |-> <<>>, id |-> FALSE,
     has_next |-> FALSE, next |-> NoUrl]

\* (response, success) of make_request: every failure (status >= 400, a 429
\* after its sleep, a timeout, any other exception) is (None, False).
FailedResponse == [success |-> FALSE, data |-> ScalarBody, link |-> NoLink]
OkResponse(data, link) == [success |-> TRUE, data |-> data, link |-> link]

\* The body seen as an object, for the single-object response [data].
BodyObject == Object("body", "", <<>>)

Truthy(value) == ~value.is_list \/ value.items # <<>>

\* objects_in_page of one response body (lines 425-444): raised is TRUE when
\* the selected value is no list and all_objects.extend raises on it.
ObjectsInPage(data) ==
    LET pick(k) == k \in DOMAIN data.m /\ Truthy(data.m[k])
        val(k) == [raised |-> ~data.m[k].is_list, objects |-> data.m[k].items]
    IN  IF data.shape = "array" THEN [raised |-> FALSE, objects |-> data.items]
        ELSE IF data.shape = "mapping" THEN
            IF pick("data") THEN val("data")
            ELSE IF pick("results") THEN val("results")
            ELSE IF pick("items") THEN val("items")
            ELSE IF pick("singular") THEN val("singular")
            ELSE IF pick("plural") THEN val("plural")
            ELSE IF data.id THEN [raised |-> FALSE, objects |-> <<BodyObject>>]
            ELSE [raised |-> FALSE, objects |-> <<>>]
        ELSE [raised |-> FALSE, objects |-> <<>>]

\* next_url after one page (lines 459-480): the rel="next" URL of the Link
\* header, overridden by the body's 'next' field when the body has one;
\* raised when the rel="next" entry has no <...> (IndexError).
NextUrl(response) ==
    LET from_link == IF response.link.rel_next THEN response.link.url ELSE NoUrl
    IN  [raised |-> response.link.rel_next /\ ~response.link.wellformed,
         url |-> IF response.data.shape = "mapping" /\ response.data.has_next
                 THEN response.data.next ELSE from_link]

\* The next list request built without the 'after' parameter.
AfterParamDropped(next_url) == ""

\* params['after'] of the next list request (lines 399-404): set only when
\* next_url is truthy and its query has an 'after' parameter.
AfterParam(next_url) == IF next_url.present THEN next_url.after ELSE ""

-----------------------------------------------------------------------------
(* One call of backup_endpoint_with_deep_details.                          *)

\* The dict the call returns; status "exception" stands for the call raising
\* instead of returning, "none" for a call that has not ended. Keys a dict
\* lacks read as 0 (result.get(key, 0)).
Result(status, reason, total_objects, pages_fetched, detailed_objects, fallback_objects) ==
    [status |-> status, reason |-> reason, total_objects |-> total_objects,
     pages_fetched |-> pages_fetched, detailed_objects |-> detailed_objects,
     fallback_objects |-> fallback_objects]
NoResult == Result("none", "", 0, 0, 0, 0)
Raised == Result("exception", "", 0, 0, 0, 0)
Failed(reason) == Result("failed", reason, 0, 0, 0, 0)

\* The tasks: one per enabled global endpoint (idx 0), one per resource
\* endpoint and position of the resources list (backup_single_resource_context).
GTask(object_type) == [type |-> object_type, idx |-> 0]
STask(object_type, i) == [type |-> object_type, idx |-> i]

\* The config dict of a run: the catalog entry for a global endpoint, the
\* backup_config built by backup_single_resource_context (lines 789-799) for a
\* sub-run.
\* BackupConfig without the copy of the list_only flag (line 794)
BackupConfigForgetsListOnly(config) ==
    [detail |-> config.detail, list_only |-> FALSE,
     filter |-> config.filter_template]

BackupConfig(config) ==
    [detail |-> config.detail, list_only |-> config.list_only,
     filter |-> config.filter_template]

\* Locals of a run at its creation (lines 384-389), with the history of its
\* list requests (reqs: the 'after' parameter of each, "" for none; pages:
\* what each answered page offered, its body and the objects taken from it;
\* failed_at: the request that failed) and
\* of the objects it listed (bodies: for each object kept from the list, the
\* detail body when its enrichment succeeded, else the object as listed).
NewRun(endpoint_name, config) ==
    [pc |-> "start", name |-> endpoint_name, config |-> config,
     all_objects |-> <<>>, pages_fetched |-> 0, next_url |-> NoUrl,
     det |-> <<>>, result |-> NoResult,
     reqs |-> <<>>, pages |-> <<>>, failed_at |-> 0, detail_calls |-> 0,
     bodies |-> {}]

\* The call ends with `result`: its locals are gone, its history stays.
Return(r, result) ==
    [r EXCEPT !.pc = "returned", !.result = result,
              !.all_objects = <<>>, !.pages_fetched = 0, !.next_url = NoUrl,
              !.det = <<>>]

\* One answered list page (lines 420-487): pages_fetched is counted first;
\* the loop goes on only when objects were found, test mode is off and a
\* truthy next_url was found.
ProcessPage(r, response, test) ==
    LET oip == ObjectsInPage(response.data)
        nu == NextUrl(response)
        counted == [r EXCEPT !.pages_fetched = @ + 1]
        extended == [counted EXCEPT !.all_objects = @ \o oip.objects]
    IN  IF oip.raised \/ oip.objects = <<>>
        THEN [r |-> counted, continue |-> FALSE]
        ELSE IF test /\ Len(extended.all_objects) >= 1
        THEN [r |-> [extended EXCEPT !.all_objects = <<@[1]>>], continue |-> FALSE]
        ELSE IF nu.raised \/ ~nu.url.present
        THEN [r |-> [extended EXCEPT !.next_url = NoUrl], continue |-> FALSE]
        ELSE [r |-> [extended EXCEPT !.next_url = nu.url], continue |-> TRUE]

\* The detail tasks gathered at line 510: one per listed object with a truthy
\* 'id' (lines 504-507).
DetailTask(obj) == [obj |-> obj, st |-> "wait_detail", data |-> obj]

RECURSIVE DetailTasks(_)
DetailTasks(objs) ==
    IF objs = <<>> THEN <<>>
    ELSE IF Head(objs).id # "" THEN <<DetailTask(Head(objs))>> \o DetailTasks(Tail(objs))
    ELSE DetailTasks(Tail(objs))

\* The counters after the loop over detail_results (lines 512-521).
CountDetails(det) ==
    [detailed |-> Cardinality({i \in DOMAIN det : det[i].st = "detailed"}),
     fallback |-> Cardinality({i \in DOMAIN det : det[i].st \in {"fallback", "exception"}})]

\* Lines 541-561: the list files are written, then the success dict returned;
\* a raising sink write makes the call raise.
Finalize(r, detailed_objects, fallback_objects, lists_ok) ==
    IF lists_ok
    THEN Result("success", "", Len(r.all_objects), r.pages_fetched,
                detailed_objects, fallback_objects)
    ELSE Raised

\* fetch_object_detail after its request was answered (lines 569-588): s1 and
\* s2 tell whether save_object_to_file completes for the detailed and for the
\* fallback data.
DetailOutcome(task, endpoint_name, response, s1, s2) ==
    IF response.success /\ s1
    THEN [task |-> [task EXCEPT !.st = "detailed", !.data = response.data],
          ids |-> ExtractResourceIds(response.data, endpoint_name)]
    ELSE IF s2
    THEN [task |-> [task EXCEPT !.st = "fallback", !.data = task.obj],
          ids |-> ExtractResourceIds(task.obj, endpoint_name)]
    ELSE [task |-> [task EXCEPT !.st = "exception"], ids |-> {}]

\* AfterList without the check of lines 489-496: an empty all_objects goes on
\* to the detail phase and to the success dict.
AfterListNoEmptyCheck(r, k) ==
    LET n == Len(r.all_objects)
        tasks == DetailTasks(r.all_objects)
        done(res) == Return(r, res)
    IN  IF r.config.detail /\ ~r.config.list_only
        THEN IF tasks = <<>>
             THEN [r |-> done(Finalize(r, 0, 0, k >= 1)), ids |-> {}]
             ELSE [r |-> [r EXCEPT !.pc = "gather", !.det = tasks], ids |-> {}]
        ELSE IF r.config.detail /\ r.config.list_only
        THEN [r |-> done(IF k < n THEN Raised ELSE Finalize(r, n, 0, k > n)), ids |-> {}]
        ELSE [r |-> done(IF k < n THEN Raised ELSE Finalize(r, 0, 0, k > n)),
              ids |-> UNION {ExtractResourceIds(r.all_objects[i], r.name) : i \in 1..n}]

\* Lines 489-561 once the pagination loop has ended: k is the number of sink
\* writes that complete before one raises (more than the segment makes when
\* none raises). Gives the run after the segment and the ids it extracted.
AfterList(r, k) ==
    LET n == Len(r.all_objects)
        tasks == DetailTasks(r.all_objects)
        done(res) == Return(r, res)
        saved == IF k < n THEN k ELSE n
    IN  IF n = 0
        THEN [r |-> done(Failed("no_entities_discovered")), ids |-> {}]
        ELSE IF r.config.detail /\ ~r.config.list_only
        THEN IF tasks = <<>>
             THEN [r |-> done(Finalize(r, 0, 0, k >= 1)), ids |-> {}]
             ELSE [r |-> [r EXCEPT !.pc = "gather", !.det = tasks], ids |-> {}]
        ELSE IF r.config.detail /\ r.config.list_only
        THEN [r |-> done(IF k < n THEN Raised ELSE Finalize(r, n, 0, k > n)), ids |-> {}]
        ELSE [r |-> done(IF k < n THEN Raised ELSE Finalize(r, 0, 0, k > n)),
              ids |-> UNION {ExtractResourceIds(r.all_objects[i], r.name) : i \in 1..saved}]

\* AfterResponse with every failed list request treated as the first one: the
\* pages already fetched are dropped.
AfterResponseDropsPages(r, response, test, k) ==
    LET logged == IF response.success
                  THEN [r EXCEPT !.pages = Append(@, [n |-> Len(ObjectsInPage(response.data).objects),
                                                      raised |-> ObjectsInPage(response.data).raised
                                                                 \/ NextUrl(response).raised,
                                                      next |-> NextUrl(response).url,
                                                      data |-> response.data,
                                                      objects |-> ObjectsInPage(response.data).objects])]
                  ELSE [r EXCEPT !.failed_at = Len(r.reqs)]
        page == ProcessPage(logged, response, test)
    IN  IF ~response.success
        THEN [r |-> Return(logged, Failed("request_failed")), ids |-> {}]
        ELSE IF page.continue
        THEN [r |-> [page.r EXCEPT !.pc = "list"], ids |-> {}]
        ELSE AfterList(page.r, k)

\* The list request of a run was answered (lines 406-487 and, when the loop
\* ends, 489-561).
AfterResponse(r, response, test, k) ==
    LET logged == IF response.success
                  THEN [r EXCEPT !.pages = Append(@, [n |-> Len(ObjectsInPage(response.data).objects),
                                                      raised |-> ObjectsInPage(response.data).raised
                                                                 \/ NextUrl(response).raised,
                                                      next |-> NextUrl(response).url,
                                                      data |-> response.data,
                                                      objects |-> ObjectsInPage(response.data).objects])]
                  ELSE [r EXCEPT !.failed_at = Len(r.reqs)]
        page == ProcessPage(logged, response, test)
    IN  IF ~response.success
        THEN IF r.pages_fetched = 0
             THEN [r |-> Return(logged, Failed("request_failed")), ids |-> {}]
             ELSE AfterList(logged, k)
        ELSE IF page.continue
        THEN [r |-> [page.r EXCEPT !.pc = "list"], ids |-> {}]
        ELSE AfterList(page.r, k)

-----------------------------------------------------------------------------
(* The run summary.                                                        *)

\* An entry of backup_summary["endpoints_backed_up"]: the keys of the dict of
\* a global endpoint and of the dict of a resource endpoint, 0 or "" for the
\* keys a dict lacks.
Entry(status, reason, total_objects, pages_fetched, detailed_objects, fallback_objects,
      successful_resources, failed_resources, resources_processed) ==
    [status |-> status, reason |-> reason, total_objects |-> total_objects,
     pages_fetched |-> pages_fetched, detailed_objects |-> detailed_objects,
     fallback_objects |-> fallback_objects,
     successful_resources |-> successful_resources,
     failed_resources |-> failed_resources,
     resources_processed |-> resources_processed]

\* endpoints_backed_up[object_type] = entry
SetEntry(summary, object_type, entry) ==
    [summary EXCEPT !.endpoints_backed_up =
        [n \in DOMAIN @ \cup {object_type} |-> IF n = object_type THEN entry ELSE @[n]]]

\* RecordBasic without line 694: the entry is stored, the total is not raised.
RecordBasicNoTotal(summary, object_type, result) ==
    SetEntry(summary, object_type,
             IF result.status = "exception"
             THEN Entry("failed", "exception", 0, 0, 0, 0, 0, 0, 0)
             ELSE Entry(result.status, result.reason, result.total_objects,
                        result.pages_fetched, result.detailed_objects,
                        result.fallback_objects, 0, 0, 0))

\* RecordBasic without the except clause of lines 695-702: a raising run
\* leaves no entry.
RecordBasicNoExcept(summary, object_type, result) ==
    IF result.status = "exception"
    THEN summary
    ELSE RecordBasicNoTotal(
             [summary EXCEPT !.total_objects =
                 @ + IF result.status = "success" THEN result.total_objects ELSE 0],
             object_type, result)

\* process_basic_endpoint once backup_endpoint_with_deep_details has returned
\* result or raised (lines 690-702).
RecordBasic(summary, object_type, result) ==
    IF result.status = "exception"
    THEN SetEntry(summary, object_type, Entry("failed", "exception", 0, 0, 0, 0, 0, 0, 0))
    ELSE LET stored == SetEntry(summary, object_type,
                                Entry(result.status, result.reason, result.total_objects,
                                      result.pages_fetched, result.detailed_objects,
                                      result.fallback_objects, 0, 0, 0))
         IN  IF result.status = "success"
             THEN [stored EXCEPT !.total_objects = @ + result.total_objects]
             ELSE stored

\* What backup_single_resource_context returns for the result of its run
\* (lines 802-811).
SubResult(result) ==
    IF result.status = "success"
    THEN [success |-> TRUE, objects |-> result.total_objects]
    ELSE [success |-> FALSE, objects |-> 0]

\* RecordResource reporting success only when no sub-run failed.
RecordResourceAllOrNothing(summary, object_type, results) ==
    LET total_objects == SumSeq([i \in DOMAIN results |-> results[i].objects])
        successful_resources == Cardinality({i \in DOMAIN results : results[i].success})
        failed_resources == Cardinality({i \in DOMAIN results : ~results[i].success})
        stored == SetEntry(summary, object_type,
                           Entry(IF failed_resources = 0 THEN "success" ELSE "failed",
                                 "", total_objects, 0, 0, 0,
                                 successful_resources, failed_resources, Len(results)))
    IN  [stored EXCEPT !.total_objects = @ + total_objects]

\* process_resource_endpoint once its sub-runs are gathered (lines 749-766).
RecordResource(summary, object_type, results) ==
    LET total_objects == SumSeq([i \in DOMAIN results |-> results[i].objects])
        successful_resources == Cardinality({i \in DOMAIN results : results[i].success})
        failed_resources == Cardinality({i \in DOMAIN results : ~results[i].success})
        stored == SetEntry(summary, object_type,
                           Entry(IF successful_resources > 0 THEN "success" ELSE "failed",
                                 "", total_objects, 0, 0, 0,
                                 successful_resources, failed_resources, Len(results)))
    IN  [stored EXCEPT !.total_objects = @ + total_objects]

\* get_collected_resource_ids handing out a list with one entry per insertion
\* rather than per id: some id comes twice.
GetCollectedResourceIdsRepeated(ids) ==
    IF ids = {} THEN {<<>>}
    ELSE {l \in [1..(Cardinality(ids) + 1) -> ids] : {l[i] : i \in DOMAIN l} = ids}

\* get_collected_resource_ids falling back to a stock resource when nothing
\* was collected.
GetCollectedResourceIdsOrStock(ids) ==
    IF ids = {} THEN {<<"r1">>}
    ELSE {l \in [1..Cardinality(ids) -> ids] : \A i, j \in DOMAIN l : l[i] = l[j] => i = j}

\* get_collected_resource_ids: list(self.collected_resource_ids), in any of
\* the orders a set may be iterated in; [] when the set is empty.
GetCollectedResourceIds(ids) ==
    {l \in [1..Cardinality(ids) -> ids] : \A i, j \in DOMAIN l : l[i] = l[j] => i = j}

-----------------------------------------------------------------------------
(* The server.                                                             *)

SeqsUpTo(S, n) == UNION {[1..k -> S] : k \in 0..n}

\* Failure, or a bare array of objects with or without a rel="next" link.
ArrayAnswers(objects, maxlen, links) ==
    {FailedResponse} \cup
    {OkResponse(ArrayBody(items), link) : items \in SeqsUpTo(objects, maxlen), link \in links}

\* Mapping bodies and malformed answers: objects under 'data', under
\* 'results' beside an empty 'data', a 'next' field that overrides the Link
\* header, a non-list under 'data', a single object, an unrecognised mapping,
\* a body that is neither array nor mapping, a rel="next" entry without <...>.
ShapedAnswers ==
    {OkResponse(MappingBody([k \in {"data"} |-> ListValue(<<ObjA>>)], FALSE, FALSE, NoUrl), NoLink),
     OkResponse(MappingBody([k \in {"data"} |-> ListValue(<<ObjNoId>>)], FALSE, TRUE, Url("c2")), NoLink),
     OkResponse(MappingBody([k \in {"data"} |-> ListValue(<<ObjA>>)], FALSE, TRUE, NoUrl), Link(Url("c1"))),
     OkResponse(MappingBody([k \in {"data", "results"} |->
                                IF k = "data" THEN ListValue(<<>>) ELSE ListValue(<<ObjNoId>>)],
                            TRUE, FALSE, NoUrl), NoLink),
     OkResponse(MappingBody([k \in {"data"} |-> ScalarValue], FALSE, FALSE, NoUrl), NoLink),
     OkResponse(MappingBody(<<>>, TRUE, FALSE, NoUrl), NoLink),
     OkResponse(MappingBody(<<>>, FALSE, FALSE, NoUrl), Link(Url("c1"))),
     OkResponse(ScalarBody, NoLink),
     OkResponse(ArrayBody(<<ObjA>>), BadLink),
     OkResponse(ArrayBody(<<ObjMalformed, ObjA>>), NoLink)}

\* What the server holds for an endpoint:
\*   "alone": up to MaxPages pages of up to MaxPageLen objects, with or without
\*            'id', in every body shape, with every kind of next link;
\*   "orch":  up to OrchPages pages of up to OrchPageLen objects; every review
\*            and some campaigns reference resources, no other object does;
\*   "seed":  one page holding one review of resource r1.
PagesOf(profile) ==
    IF profile = "alone" THEN MaxPages ELSE IF profile = "orch" THEN OrchPages ELSE 1

ListAnswersOf(profile, object_type) ==
    IF profile = "alone"
    THEN ArrayAnswers({ObjA, ObjNoId}, MaxPageLen,
                      {NoLink, Link(Url("c1")), Link(Url("c2")), Link(Url(""))})
         \cup ShapedAnswers
    ELSE IF profile = "orch"
    THEN ArrayAnswers(IF object_type = "reviews" THEN {ObjA}
                      ELSE IF object_type = "campaigns" THEN {ObjA, ObjPlain}
                      ELSE {ObjPlain},
                      OrchPageLen, {NoLink, Link(Url("c1"))})
    ELSE ArrayAnswers({ObjA}, 1, {NoLink})

\* The answers to the detail request for obj: a failure, the object as
\* listed, or (for an endpoint studied alone) a body without resource ids.
DetailAnswersOf(profile, obj) ==
    {[success |-> FALSE, data |-> obj]} \cup
    {[success |-> TRUE, data |-> b] :
        b \in IF profile = "alone" THEN {obj, ObjPlain} ELSE {obj}}

-----------------------------------------------------------------------------
(* Actions.                                                                *)

GlobalTasks == {t \in DOMAIN run : t.idx = 0}
SubRuns(object_type) == {t \in DOMAIN run : t.type = object_type /\ t.idx > 0}

\* Settle without the exit of `async with self.endpoint_semaphore`: a run that
\* has returned keeps its permit.
SettleKeepsPermit(t, out) ==
    /\ run' = [run EXCEPT ![t] = out.r]
    /\ collected_resource_ids' = RegistryAdd(collected_resource_ids, out.ids)
    /\ endpoint_semaphore' = endpoint_semaphore
    /\ backup_summary' = IF out.r.pc = "returned" /\ t.idx = 0
                         THEN RecordBasic(backup_summary, t.type, out.r.result)
                         ELSE backup_summary

\* A segment of task t ends with the run record out.r and the extracted ids
\* out.ids: a run that has returned leaves `async with self.endpoint_semaphore`
\* and, for a global endpoint, process_basic_endpoint records its result in
\* the same segment.
Settle(t, out) ==
    /\ run' = [run EXCEPT ![t] = out.r]
    /\ collected_resource_ids' = RegistryAdd(collected_resource_ids, out.ids)
    /\ endpoint_semaphore' = IF out.r.pc = "returned" THEN endpoint_semaphore + 1
                             ELSE endpoint_semaphore
    /\ backup_summary' = IF out.r.pc = "returned" /\ t.idx = 0
                         THEN RecordBasic(backup_summary, t.type, out.r.result)
                         ELSE backup_summary

\* run_complete_backup up to `await asyncio.gather(*tasks)` (lines 598-637):
\* one process_basic_endpoint task per enabled global endpoint; a task whose
\* config requires a filter returns at once and records nothing.
RunCompleteBackup ==
    /\ orch = "init"
    /\ orch' = "phase1"
    /\ backup_summary' = [endpoints_backed_up |-> [n \in {} |-> 0], total_objects |-> 0]
    /\ run' = [t \in {GTask(n) : n \in {m \in enabled_global :
                                          /\ global_endpoints[m].list
                                          /\ ~global_endpoints[m].requires_filter}} |->
                  NewRun(GlobalName(t.type), BackupConfig(global_endpoints[t.type]))]
    /\ UNCHANGED <<transport_vars, client, boot, auth_vars, pipe,
                   test_mode, server, enabled_global, enabled_resource, summary_writes,
                   collected_resource_ids, available_resources, rend, api_semaphore,
                   endpoint_semaphore, detail_semaphore, resource_semaphore>>

\* `async with self.endpoint_semaphore` (line 375)
AcquireEndpoint(t) ==
    /\ run[t].pc = "start"
    /\ endpoint_semaphore > 0
    /\ endpoint_semaphore' = endpoint_semaphore - 1
    /\ run' = [run EXCEPT ![t].pc = "list"]
    /\ UNCHANGED <<transport_vars, client, boot, auth_vars, pipe,
                   test_mode, server, enabled_global, enabled_resource, orch, backup_summary,
                   summary_writes, collected_resource_ids, available_resources, rend,
                   api_semaphore, detail_semaphore, resource_semaphore>>

\* ListRequest issued ahead: the next list request is sent while the last
\* one is still unanswered.
ListRequestAhead(t) ==
    /\ run[t].pc \in {"list", "list_wait"}
    /\ api_semaphore > 0
    /\ api_semaphore' = api_semaphore - 1
    /\ run' = [run EXCEPT ![t].pc = "list_wait",
                          ![t].reqs = Append(@, AfterParam(run[t].next_url))]
    /\ UNCHANGED <<transport_vars, client, boot, auth_vars, pipe,
                   test_mode, server, enabled_global, enabled_resource, orch, backup_summary,
                   summary_writes, collected_resource_ids, available_resources, rend,
                   endpoint_semaphore, detail_semaphore, resource_semaphore>>

\* The list request of lines 393-406 is issued: make_request enters
\* `async with self.api_semaphore` (line 203) and sends the GET.
ListRequest(t) ==
    /\ run[t].pc = "list"
    /\ api_semaphore > 0
    /\ api_semaphore' = api_semaphore - 1
    /\ run' = [run EXCEPT ![t].pc = "list_wait",
                          ![t].reqs = Append(@, AfterParam(run[t].next_url))]
    /\ UNCHANGED <<transport_vars, client, boot, auth_vars, pipe,
                   test_mode, server, enabled_global, enabled_resource, orch, backup_summary,
                   summary_writes, collected_resource_ids, available_resources, rend,
                   endpoint_semaphore, detail_semaphore, resource_semaphore>>

\* all_objects when the pagination loop ends on `response` (lines 408-456).
KeptObjects(r, response, test) ==
    IF response.success THEN ProcessPage(r, response, test).r.all_objects
    ELSE r.all_objects

\* The kept objects that get no detail call (lines 499-507 and 523-539): all
\* of them without a detail template or with list_only, else those without
\* a truthy 'id'.
Unenriched(objs, config) ==
    {objs[i] : i \in {j \in DOMAIN objs :
                         (config.detail /\ ~config.list_only) => objs[j].id = ""}}

\* make_request returns to the pagination loop with one of the answers the
\* server has for the endpoint; the server offers a further page only while
\* its chain of pages lasts.
ListResponse(t) ==
    /\ run[t].pc = "list_wait"
    /\ \E response \in ListAnswersOf(server[t.type], t.type) :
       \E k \in 0..(Len(run[t].all_objects) + Len(ObjectsInPage(response.data).objects) + 1) :
          LET ended == AfterResponse(run[t], response, test_mode, k)
              out == [ended EXCEPT !.r.bodies =
                         IF ended.r.pc = "list" THEN @
                         ELSE Unenriched(KeptObjects(run[t], response, test_mode),
                                         run[t].config)]
          IN  /\ out.r.pc = "list" => out.r.pages_fetched < PagesOf(server[t.type])
              /\ Settle(t, out)
    /\ api_semaphore' = api_semaphore + 1
    /\ UNCHANGED <<transport_vars, client, boot, auth_vars, pipe,
                   test_mode, server, enabled_global, enabled_resource, orch, summary_writes,
                   available_resources, rend, detail_semaphore, resource_semaphore>>

\* DetailAcquire without the wait for a permit of detail_semaphore
DetailAcquireUnguarded(t, i) ==
    /\ run[t].pc = "gather"
    /\ run[t].det[i].st = "wait_detail"
    /\ detail_semaphore' = detail_semaphore - 1
    /\ run' = [run EXCEPT ![t].det[i].st = "wait_api"]
    /\ UNCHANGED <<transport_vars, client, boot, auth_vars, pipe,
                   test_mode, server, enabled_global, enabled_resource, orch, backup_summary,
                   summary_writes, collected_resource_ids, available_resources, rend,
                   api_semaphore, endpoint_semaphore, resource_semaphore>>

\* fetch_object_detail enters `async with self.detail_semaphore` (line 565)
DetailAcquire(t, i) ==
    /\ run[t].pc = "gather"
    /\ run[t].det[i].st = "wait_detail"
    /\ detail_semaphore > 0
    /\ detail_semaphore' = detail_semaphore - 1
    /\ run' = [run EXCEPT ![t].det[i].st = "wait_api"]
    /\ UNCHANGED <<transport_vars, client, boot, auth_vars, pipe,
                   test_mode, server, enabled_global, enabled_resource, orch, backup_summary,
                   summary_writes, collected_resource_ids, available_resources, rend,
                   api_semaphore, endpoint_semaphore, resource_semaphore>>

\* The detail request of line 567 is issued (make_request, line 203).
DetailRequest(t, i) ==
    /\ run[t].pc = "gather"
    /\ run[t].det[i].st = "wait_api"
    /\ api_semaphore > 0
    /\ api_semaphore' = api_semaphore - 1
    /\ run' = [run EXCEPT ![t].det[i].st = "inflight", ![t].detail_calls = @ + 1]
    /\ UNCHANGED <<transport_vars, client, boot, auth_vars, pipe,
                   test_mode, server, enabled_global, enabled_resource, orch, backup_summary,
                   summary_writes, collected_resource_ids, available_resources, rend,
                   endpoint_semaphore, detail_semaphore, resource_semaphore>>

\* DetailResponse without the exit of `async with self.detail_semaphore`:
\* a finished detail call keeps its permit.
DetailResponseKeepsPermit(t, i) ==
    /\ run[t].pc = "gather"
    /\ run[t].det[i].st = "inflight"
    /\ \E response \in DetailAnswersOf(server[t.type], run[t].det[i].obj), s1, s2 \in BOOLEAN :
          LET out == DetailOutcome(run[t].det[i], run[t].name, response, s1, s2)
          IN  /\ run' = [run EXCEPT ![t].det[i] = out.task,
                                    ![t].bodies = @ \cup {IF out.task.st = "detailed"
                                                          THEN response.data
                                                          ELSE run[t].det[i].obj}]
              /\ collected_resource_ids' = RegistryAdd(collected_resource_ids, out.ids)
    /\ api_semaphore' = api_semaphore + 1
    /\ UNCHANGED <<transport_vars, client, boot, auth_vars, pipe,
                   test_mode, server, enabled_global, enabled_resource, orch, backup_summary,
                   summary_writes, available_resources, rend, endpoint_semaphore,
                   detail_semaphore, resource_semaphore>>

\* The detail request is answered and fetch_object_detail runs to its end
\* (lines 567-588), leaving both semaphores.
DetailResponse(t, i) ==
    /\ run[t].pc = "gather"
    /\ run[t].det[i].st = "inflight"
    /\ \E response \in DetailAnswersOf(server[t.type], run[t].det[i].obj), s1, s2 \in BOOLEAN :
          LET out == DetailOutcome(run[t].det[i], run[t].name, response, s1, s2)
          IN  /\ run' = [run EXCEPT ![t].det[i] = out.task,
                                    ![t].bodies = @ \cup {IF out.task.st = "detailed"
                                                          THEN response.data
                                                          ELSE run[t].det[i].obj}]
              /\ collected_resource_ids' = RegistryAdd(collected_resource_ids, out.ids)
    /\ api_semaphore' = api_semaphore + 1
    /\ detail_semaphore' = detail_semaphore + 1
    /\ UNCHANGED <<transport_vars, client, boot, auth_vars, pipe,
                   test_mode, server, enabled_global, enabled_resource, orch, backup_summary,
                   summary_writes, available_resources, rend, endpoint_semaphore,
                   resource_semaphore>>

\* asyncio.gather of the detail tasks returns (line 510) and the run goes on
\* to its end (lines 512-561).
GatherDetails(t) ==
    /\ run[t].pc = "gather"
    /\ \A i \in DOMAIN run[t].det : run[t].det[i].st \in {"detailed", "fallback", "exception"}
    /\ \E lists_ok \in BOOLEAN :
          LET c == CountDetails(run[t].det)
          IN  Settle(t, [r |-> Return(run[t], Finalize(run[t], c.detailed, c.fallback,
                                                       lists_ok)),
                         ids |-> {}])
    /\ UNCHANGED <<transport_vars, client, boot, auth_vars, pipe,
                   test_mode, server, enabled_global, enabled_resource, orch, summary_writes,
                   available_resources, rend, api_semaphore, detail_semaphore,
                   resource_semaphore>>

\* Lines 671-673: backup_summary.json is written.
WriteSummary ==
    /\ summary_writes' = summary_writes + 1
    /\ orch' = "done"

\* The resource endpoints run_complete_backup starts tasks for (lines 654-662).
ResourceTasks(resources) ==
    IF resources # <<>>
    THEN {e \in enabled_resource : e \in DOMAIN resource_endpoints}
    ELSE {}

\* Phase1Done without the await of line 637: the registry is read while
\* phase-1 tasks may still run.
Phase1DoneEarly ==
    /\ orch = "phase1"
    /\ \E resources \in GetCollectedResourceIds(collected_resource_ids) :
          /\ available_resources' = resources
          /\ rend' = [e \in ResourceTasks(resources) |-> [pc |-> "start"]]
          /\ IF ResourceTasks(resources) # {}
             THEN orch' = "phase2" /\ UNCHANGED summary_writes
             ELSE WriteSummary
    /\ UNCHANGED <<transport_vars, client, boot, auth_vars, pipe,
                   test_mode, server, enabled_global, enabled_resource, backup_summary,
                   collected_resource_ids, run, api_semaphore, endpoint_semaphore,
                   detail_semaphore, resource_semaphore>>

\* gather of the phase-1 tasks returns (line 637); run_complete_backup reads
\* the registry (line 652) and either starts one process_resource_endpoint
\* task per enabled resource endpoint (lines 654-666) or, with nothing to
\* gather, goes on to write the summary (lines 671-677).
Phase1Done ==
    /\ orch = "phase1"
    /\ \A t \in GlobalTasks : run[t].pc = "returned"
    /\ \E resources \in GetCollectedResourceIds(collected_resource_ids) :
          /\ available_resources' = resources
          /\ rend' = [e \in ResourceTasks(resources) |-> [pc |-> "start"]]
          /\ IF ResourceTasks(resources) # {}
             THEN orch' = "phase2" /\ UNCHANGED summary_writes
             ELSE WriteSummary
    /\ UNCHANGED <<transport_vars, client, boot, auth_vars, pipe,
                   test_mode, server, enabled_global, enabled_resource, backup_summary,
                   collected_resource_ids, run, api_semaphore, endpoint_semaphore,
                   detail_semaphore, resource_semaphore>>

\* backup_single_resource_context up to its call of
\* backup_endpoint_with_deep_details (lines 771-802): without a resource_list
\* and without a list with a filter_template it returns a failure at once.
NewSubRun(object_type, resource_id) ==
    LET config == resource_endpoints[object_type]
        r == NewRun(ResourceEndpointName(resource_id, object_type), BackupConfig(config))
    IN  IF config.resource_list \/ (config.list /\ config.filter_template)
        THEN r
        ELSE Return(r, Failed(""))

\* process_resource_endpoint from its start to its gather (lines 722-747):
\* with no resources it records no_resources_available and returns; else it
\* enters `async with self.resource_semaphore` and starts one sub-run per
\* entry of resources.
ProcessResourceEndpoint(e) ==
    /\ rend[e].pc = "start"
    /\ IF available_resources = <<>>
       THEN /\ backup_summary' = SetEntry(backup_summary, e,
                    Entry("failed", "no_resources_available", 0, 0, 0, 0, 0, 0, 0))
            /\ rend' = [rend EXCEPT ![e].pc = "returned"]
            /\ UNCHANGED <<run, resource_semaphore>>
       ELSE /\ resource_semaphore > 0
            /\ resource_semaphore' = resource_semaphore - 1
            /\ rend' = [rend EXCEPT ![e].pc = "gather"]
            /\ run' = run @@ [t \in {STask(e, i) : i \in DOMAIN available_resources} |->
                                 NewSubRun(e, available_resources[t.idx])]
            /\ UNCHANGED backup_summary
    /\ UNCHANGED <<transport_vars, client, boot, auth_vars, pipe,
                   test_mode, server, enabled_global, enabled_resource, orch, summary_writes,
                   collected_resource_ids, available_resources, api_semaphore,
                   endpoint_semaphore, detail_semaphore>>

\* gather of the sub-runs returns (line 747): the semaphore is left and the
\* results are aggregated into the summary (lines 749-766).
ResourceEndpointDone(e) ==
    /\ rend[e].pc = "gather"
    /\ \A t \in SubRuns(e) : run[t].pc = "returned"
    /\ resource_semaphore' = resource_semaphore + 1
    /\ rend' = [rend EXCEPT ![e].pc = "returned"]
    /\ backup_summary' = RecordResource(backup_summary, e,
            [i \in DOMAIN available_resources |-> SubResult(run[STask(e, i)].result)])
    /\ UNCHANGED <<transport_vars, client, boot, auth_vars, pipe,
                   test_mode, server, enabled_global, enabled_resource, orch, summary_writes,
                   collected_resource_ids, available_resources, run, api_semaphore,
                   endpoint_semaphore, detail_semaphore>>

\* Phase2Done without the await of line 666: the summary is written while
\* resource endpoint tasks may still run.
Phase2DoneEarly ==
    /\ orch = "phase2"
    /\ WriteSummary
    /\ UNCHANGED <<transport_vars, client, boot, auth_vars, pipe,
                   test_mode, server, enabled_global, enabled_resource, backup_summary,
                   collected_resource_ids, available_resources, run, rend,
                   api_semaphore, endpoint_semaphore, detail_semaphore,
                   resource_semaphore>>

\* gather of the resource tasks returns (line 666) and the summary is written.
Phase2Done ==
    /\ orch = "phase2"
    /\ \A e \in DOMAIN rend : rend[e].pc = "returned"
    /\ WriteSummary
    /\ UNCHANGED <<transport_vars, client, boot, auth_vars, pipe,
                   test_mode, server, enabled_global, enabled_resource, backup_summary,
                   collected_resource_ids, available_resources, run, rend,
                   api_semaphore, endpoint_semaphore, detail_semaphore,
                   resource_semaphore>>

-----------------------------------------------------------------------------
(* The transport: check_rate_limit and make_request.                       *)

Callers == 1..MaxCallers

\* The rate limiter as constructed (lines 67-68, 96-98): start_time is the
\* time of construction, rate_limit_lock the caller inside `async with
\* self.rate_limit_lock` (0 for none).
Limiter(rate_limit_per_minute, burst_size) ==
    [rate_limit_per_minute |-> rate_limit_per_minute, burst_size |-> burst_size,
     request_count |-> 0, start_time |-> 0, rate_limit_lock |-> 0]

\* The window starting over with the counter left as it is
RolloverKeepsCount(l, current_time) ==
    IF current_time - l.start_time >= 60
    THEN [l EXCEPT !.start_time = current_time]
    ELSE l

\* Lines 172-179: the counter and the window start over once 60 seconds
\* have elapsed.
Rollover(l, current_time) ==
    IF current_time - l.start_time >= 60
    THEN [l EXCEPT !.request_count = 0, !.start_time = current_time]
    ELSE l

\* The budget without the requests accumulated since the window started
AvailableRequestsBurstOnly(l, current_time) == l.burst_size

\* Lines 183-184, read after Rollover:
\* burst_size + int((elapsed / 60) * rate_limit_per_minute)
AvailableRequests(l, current_time) ==
    l.burst_size + ((current_time - l.start_time) * l.rate_limit_per_minute) \div 60

\* Lines 188-191: min(1.0 / (rate_limit_per_minute / 60), 60), for a rate
\* that divides 60
RateLimitSleep(l) ==
    LET sleep_time == 60 \div l.rate_limit_per_minute
    IN  IF sleep_time < 60 THEN sleep_time ELSE 60

\* What an admission found: whether the window started over, request_count
\* and available_requests at the budget check, the window start, the time,
\* and request_count right after the admission.
Found(reset, l, current_time) ==
    [reset |-> reset, request_count |-> l.request_count,
     available_requests |-> AvailableRequests(l, current_time),
     start_time |-> l.start_time, current_time |-> current_time, after |-> 0]

\* The Retry-After header of a 429 response: missing, a number of seconds, or
\* text that int() rejects.
NoRetryAfter == [present |-> FALSE, numeric |-> FALSE, seconds |-> 0]
RetryAfter(seconds) == [present |-> TRUE, numeric |-> TRUE, seconds |-> seconds]
BadRetryAfter == [present |-> TRUE, numeric |-> FALSE, seconds |-> 0]

\* A caller of make_request: where it is, what its last admission found, the
\* sleeps it took in the current call, the GETs it sent, the statuses it
\* received in it (0 for a timeout or another transport error) and the
\* Retry-After header of the last answer, what the call returned, the calls
\* it has made, and the window start of each admission it was granted.
NewCall ==
    [pc |-> "idle", found |-> Found(FALSE, Limiter(0, 0), 0), sleeps |-> <<>>,
     gets |-> 0, statuses |-> <<>>, retry_after |-> NoRetryAfter, result |-> "none",
     wake |-> 0, calls |-> 0, admissions |-> <<>>]

\* A status that make_request hands back as a response (lines 216-245):
\* neither a transport error nor 400 or more
Succeeds(status) == status > 0 /\ status < 400

\* retry_delay of lines 218-222
RetryDelay(retry_after) ==
    IF retry_after.present /\ retry_after.numeric THEN retry_after.seconds
    ELSE retry_429_delay

\* What the server may answer to one GET.
Answers ==
    {[status |-> st, retry_after |-> NoRetryAfter] : st \in {0, 200, 500}} \cup
    {[status |-> 429, retry_after |-> h] :
        h \in {NoRetryAfter, RetryAfter(2), RetryAfter(600), BadRetryAfter}}

Later(t, wake) == IF wake > t THEN wake ELSE t

\* make_request is called and enters `async with self.api_semaphore`
\* (lines 200-203).
MakeRequest(c) ==
    /\ call[c].pc \in {"idle", "returned", "raised"}
    /\ call[c].calls < MaxCalls
    /\ api_semaphore > 0
    /\ api_semaphore' = api_semaphore - 1
    /\ call' = [call EXCEPT ![c] = [NewCall EXCEPT !.pc = "check_rate_limit",
                                                   !.found = call[c].found,
                                                   !.calls = call[c].calls + 1,
                                                   !.admissions = call[c].admissions]]
    /\ UNCHANGED <<now, limiter, beyond_transport>>

\* `async with self.rate_limit_lock` entered by whoever asks, as if there
\* were no lock.
RateLimitLockIgnored(l) == TRUE

\* `async with self.rate_limit_lock` (line 171) can be entered: no caller is
\* inside it.
RateLimitLockFree(l) == l.rate_limit_lock = 0

\* What check_rate_limit does to the limiter, the caller and the API permit
\* (lines 171-193).
CheckRateLimitSection(c) ==
    /\ call[c].pc = "check_rate_limit"
    /\ RateLimitLockFree(limiter)
    /\ LET rolled == Rollover(limiter, now)
           found == Found(rolled # limiter, rolled, now)
       IN  IF rolled.request_count >= found.available_requests
           THEN IF rolled.rate_limit_per_minute = 0
                THEN /\ limiter' = rolled
                     /\ call' = [call EXCEPT ![c].pc = "raised", ![c].found = found,
                                             ![c].result = "raised"]
                     /\ api_semaphore' = api_semaphore + 1
                ELSE /\ limiter' = [rolled EXCEPT !.rate_limit_lock = c]
                     /\ call' = [call EXCEPT ![c].pc = "rate_limit_sleep",
                                             ![c].found = found,
                                             ![c].wake = now + RateLimitSleep(rolled),
                                             ![c].sleeps = Append(@,
                                                 [kind |-> "rate_limit",
                                                  seconds |-> RateLimitSleep(rolled)])]
                     /\ UNCHANGED api_semaphore
           ELSE /\ limiter' = [rolled EXCEPT !.request_count = @ + 1]
                /\ call' = [call EXCEPT ![c].pc = "get",
                                        ![c].found = [found EXCEPT
                                                         !.after = rolled.request_count + 1],
                                        ![c].admissions = Append(@, rolled.start_time)]
                /\ UNCHANGED api_semaphore

\* check_rate_limit from the lock to its sleep or its end (lines 171-193):
\* with the budget used up it sleeps inside the lock (a rate of 0 makes line
\* 189 raise ZeroDivisionError, which leaves the lock and make_request);
\* else it counts the request and returns.
CheckRateLimit(c) ==
    /\ CheckRateLimitSection(c)
    /\ UNCHANGED <<now, beyond_transport>>

\* The sleep of line 191 is over: the request is counted (line 193) and the
\* lock is left.
RateLimitWake(c) ==
    /\ call[c].pc = "rate_limit_sleep"
    /\ now' = Later(now, call[c].wake)
    /\ limiter' = [limiter EXCEPT !.request_count = @ + 1, !.rate_limit_lock = 0]
    /\ call' = [call EXCEPT ![c].pc = "get",
                            ![c].found.after = limiter.request_count + 1,
                            ![c].admissions = Append(@, limiter.start_time)]
    /\ UNCHANGED <<api_semaphore, beyond_transport>>

\* The GET of line 213 is sent.
Get(c) ==
    /\ call[c].pc = "get"
    /\ call' = [call EXCEPT ![c].pc = "inflight", ![c].gets = @ + 1]
    /\ UNCHANGED <<now, limiter, api_semaphore, beyond_transport>>

\* Response with a status of 400 or more, a timeout or another exception
\* sending the GET again instead of returning.
ResponseRetriesErrors(c) ==
    /\ call[c].pc = "inflight"
    /\ \E answer \in Answers :
          LET heard == [call[c] EXCEPT !.statuses = Append(@, answer.status),
                                       !.retry_after = answer.retry_after]
          IN  IF answer.status = 429
              THEN /\ call' = [call EXCEPT ![c] =
                         [heard EXCEPT !.pc = "retry_sleep",
                                       !.wake = now + RetryDelay(answer.retry_after),
                                       !.sleeps = Append(@,
                                           [kind |-> "retry_429",
                                            seconds |-> RetryDelay(answer.retry_after)])]]
                   /\ UNCHANGED api_semaphore
              ELSE IF answer.status = 200 \/ call[c].gets > 1
              THEN /\ call' = [call EXCEPT ![c] =
                         [heard EXCEPT !.pc = "returned",
                                       !.result = IF Succeeds(answer.status) THEN "success"
                                                  ELSE "failed"]]
                   /\ api_semaphore' = api_semaphore + 1
              ELSE /\ call' = [call EXCEPT ![c] = [heard EXCEPT !.pc = "get"]]
                   /\ UNCHANGED api_semaphore
    /\ UNCHANGED <<now, limiter, beyond_transport>>

\* What the answer to the GET does to the caller and the API permit (lines
\* 214-254), for the answers the server may give.
MakeRequestAnswered(c, answers) ==
    /\ call[c].pc = "inflight"
    /\ \E answer \in answers :
          LET heard == [call[c] EXCEPT !.statuses = Append(@, answer.status),
                                       !.retry_after = answer.retry_after]
          IN  IF answer.status = 429
              THEN /\ call' = [call EXCEPT ![c] =
                         [heard EXCEPT !.pc = "retry_sleep",
                                       !.wake = now + RetryDelay(answer.retry_after),
                                       !.sleeps = Append(@,
                                           [kind |-> "retry_429",
                                            seconds |-> RetryDelay(answer.retry_after)])]]
                   /\ UNCHANGED api_semaphore
              ELSE /\ call' = [call EXCEPT ![c] =
                         [heard EXCEPT !.pc = "returned",
                                       !.result = IF Succeeds(answer.status) THEN "success"
                                                  ELSE "failed"]]
                   /\ api_semaphore' = api_semaphore + 1

\* The GET is answered (lines 214-254): a 429 starts the sleep of line 225;
\* a status of 400 or more, a timeout or another exception returns
\* (None, False); anything else returns the response.
Response(c) ==
    /\ MakeRequestAnswered(c, Answers)
    /\ UNCHANGED <<now, limiter, beyond_transport>>

\* What the end of the sleep of line 225 does to the clock, the caller and
\* the API permit (line 226).
MakeRequestWoken(c) ==
    /\ call[c].pc = "retry_sleep"
    /\ now' = Later(now, call[c].wake)
    /\ call' = [call EXCEPT ![c].pc = "returned", ![c].result = "failed"]
    /\ api_semaphore' = api_semaphore + 1

\* The sleep of line 225 is over: make_request returns (None, False)
\* (line 226).
RetryWake(c) ==
    /\ MakeRequestWoken(c)
    /\ UNCHANGED <<limiter, beyond_transport>>

\* Half a minute passes.
Tick ==
    /\ now + 30 <= MaxTime
    /\ now' = now + 30
    /\ UNCHANGED <<limiter, call, api_semaphore, beyond_transport>>

-----------------------------------------------------------------------------
(* The probe of an endpoint that requires a filter.                        *)

\* The endpoint each caller of process_filter_endpoint probes.
FilterEndpoints == <<"grants", "entitlements", "principal_entitlements", "principal_access">>
FilterEndpoint(c) == FilterEndpoints[((c - 1) % Len(FilterEndpoints)) + 1]

\* What the server may answer to the GET of the probe: the answers to any
\* GET, and a status below 400 other than 200.
ProbeAnswers == Answers \cup {[status |-> 201, retry_after |-> NoRetryAfter]}

\* The dict backup_filter_required_endpoint returns (lines 847-851, 863-867)
FilterResult(status, reason, total_objects) ==
    [status |-> status, reason |-> reason, total_objects |-> total_objects]

\* backup_filter_required_endpoint doing the backup it leaves undone: an
\* endpoint whose filter works is reported with the object of the probe.
BackupFilterRequiredEndpointBacksUp(made) ==
    IF made.result = "raised" THEN FilterResult("exception", "exception", 0)
    ELSE IF made.result = "success" /\ made.statuses[Len(made.statuses)] = 200
    THEN FilterResult("success", "", 1)
    ELSE FilterResult("failed", "filter_failed", 0)

\* backup_filter_required_endpoint once its call of make_request is over
\* (lines 841-867): an exception of make_request goes through it (status
\* "exception"); an answer with status 200 is a filter that works, anything
\* else a filter that failed.
BackupFilterRequiredEndpoint(made) ==
    IF made.result = "raised" THEN FilterResult("exception", "exception", 0)
    ELSE IF made.result = "success" /\ made.statuses[Len(made.statuses)] = 200
    THEN FilterResult("failed", "filter_works_but_not_implemented", 0)
    ELSE FilterResult("failed", "filter_failed", 0)

\* process_filter_endpoint once backup_filter_required_endpoint has returned
\* result or raised (lines 706-718).
ProcessFilterEndpoint(summary, object_type, result) ==
    IF result.status = "exception"
    THEN SetEntry(summary, object_type, Entry("failed", "exception", 0, 0, 0, 0, 0, 0, 0))
    ELSE LET stored == SetEntry(summary, object_type,
                                Entry(result.status, result.reason, result.total_objects,
                                      0, 0, 0, 0, 0, 0))
         IN  IF result.status = "success"
             THEN [stored EXCEPT !.total_objects = @ + result.total_objects]
             ELSE stored

\* what the probe leaves untouched beyond the transport and the summary
beyond_filter ==
    <<test_mode, server, enabled_global, enabled_resource, orch, summary_writes,
      collected_resource_ids, available_resources, run, rend, endpoint_semaphore,
      detail_semaphore, resource_semaphore, client, boot, auth_vars, pipe>>

\* The summary after a segment of the probe of caller c: when the segment
\* ended make_request, the probe and process_filter_endpoint run to their end
\* in it.
FilterRecorded(c, made) ==
    IF made.pc \in {"returned", "raised"}
    THEN ProcessFilterEndpoint(backup_summary, FilterEndpoint(c),
                               BackupFilterRequiredEndpoint(made))
    ELSE backup_summary

\* check_rate_limit below the probe: the ZeroDivisionError of line 189 ends
\* the probe in the except clause of process_filter_endpoint.
FilterCheckRateLimit(c) ==
    /\ CheckRateLimitSection(c)
    /\ backup_summary' = FilterRecorded(c, call'[c])
    /\ UNCHANGED <<now, beyond_filter>>

\* The GET of the probe is answered; unless the answer is a 429 the probe
\* returns its result and process_filter_endpoint stores it.
FilterResponse(c) ==
    /\ MakeRequestAnswered(c, ProbeAnswers)
    /\ backup_summary' = FilterRecorded(c, call'[c])
    /\ UNCHANGED <<now, limiter, beyond_filter>>

\* The sleep after a 429 is over: make_request returns (None, False), the
\* probe returns its result and process_filter_endpoint stores it.
FilterRetryWake(c) ==
    /\ MakeRequestWoken(c)
    /\ backup_summary' = FilterRecorded(c, call'[c])
    /\ UNCHANGED <<limiter, beyond_filter>>

-----------------------------------------------------------------------------
(* The pipeline client: ApiClient._request.                                *)

\* An ApiClient with its retry settings (api_client.py lines 23-25); the
\* backoff multiplier is the fraction num / den. waits lists the sleeps of
\* the current request, throttled counts its 429 answers, gets the GETs it
\* sent, and answer is the last answer it received (status 0 for a timeout
\* or another exception, none before the first).
NewClient(delay, num, den, cap) ==
    [retry_429_delay |-> delay, backoff_multiplier |-> [num |-> num, den |-> den],
     max_retry_delay |-> cap, pc |-> "idle", backoff |-> 0, waits |-> <<>>,
     throttled |-> 0, result |-> "none", gets |-> 0,
     answer |-> [status |-> -1, retry_after |-> NoRetryAfter]]

Min(a, b) == IF a < b THEN a ELSE b

\* Line 95: min(int(backoff * backoff_multiplier), max_retry_delay)
NextBackoff(cl) ==
    Min((cl.backoff * cl.backoff_multiplier.num) \div cl.backoff_multiplier.den,
        cl.max_retry_delay)

\* _request up to its first GET (lines 85-91): semaphore, rate-limit
\* admission within the budget, backoff = retry_429_delay.
ApiRequest ==
    /\ client.pc = "idle"
    /\ api_semaphore > 0
    /\ limiter.rate_limit_lock = 0
    /\ Rollover(limiter, now).request_count < AvailableRequests(Rollover(limiter, now), now)
    /\ api_semaphore' = api_semaphore - 1
    /\ limiter' = [Rollover(limiter, now) EXCEPT !.request_count = @ + 1]
    /\ client' = [client EXCEPT !.pc = "inflight", !.backoff = client.retry_429_delay,
                                !.gets = @ + 1]
    /\ UNCHANGED <<now, call, beyond_transport_but_client>>

\* The GET is answered (lines 92-104): a 429 starts the sleep of line 94, a
\* status of 400 or more or an exception (status 0) returns (None, None),
\* anything else returns the payload.
ApiResponse ==
    /\ client.pc = "inflight"
    /\ \E answer \in Answers :
          IF answer.status = 429
          THEN /\ client.throttled < MaxThrottled
               /\ client' = [client EXCEPT !.pc = "sleep",
                                           !.answer = answer,
                                           !.throttled = @ + 1,
                                           !.waits = Append(@, client.backoff)]
               /\ UNCHANGED api_semaphore
          ELSE /\ client' = [client EXCEPT !.pc = "returned",
                                           !.answer = answer,
                                           !.result = IF answer.status = 200 THEN "success"
                                                      ELSE "failed"]
               /\ api_semaphore' = api_semaphore + 1
    /\ UNCHANGED <<now, limiter, call, beyond_transport_but_client>>

\* The sleep of line 94 is over: the backoff grows (line 95) and the GET is
\* sent again (line 96).
ApiWake ==
    /\ client.pc = "sleep"
    /\ now' = now + client.backoff
    /\ client' = [client EXCEPT !.pc = "inflight", !.backoff = NextBackoff(client),
                                !.gets = @ + 1]
    /\ UNCHANGED <<limiter, call, api_semaphore, beyond_transport_but_client>>

-----------------------------------------------------------------------------
(* Construction: __aenter__ and the tenant credentials.                    *)

\* What __aenter__ meets and how far it got: whether the credentials file
\* exists, whether it holds the tenant, whether the tenant has an
\* okta_domain, an api_token, an OAuth client id and secret; the sessions
\* opened, the token requests sent to the authorization server and the kind
\* of Authorization header setup_authentication has stored.
NewBoot(credentials_file, tenant, okta_domain, api_token, oauth) ==
    [credentials_file |-> credentials_file, tenant |-> tenant,
     okta_domain |-> okta_domain, api_token |-> api_token, oauth |-> oauth,
     pc |-> "new", sessions |-> 0, auth_requests |-> 0, headers |-> "none"]

\* __aenter__ has returned for a tenant with an API token.
Booted ==
    [NewBoot(TRUE, TRUE, TRUE, TRUE, FALSE) EXCEPT !.pc = "entered", !.sessions = 1,
                                                   !.headers = "SSWS"]

\* The checks of lines 963-985 without the one for api_token
CredentialsCompleteWithoutToken(b) ==
    b.credentials_file /\ b.tenant /\ b.okta_domain

\* The checks of fetch_tenant_credentials_from_json (lines 963-985)
CredentialsComplete(b) ==
    b.credentials_file /\ b.tenant /\ b.okta_domain /\ b.api_token

\* fetch_tenant_credentials_from_json (lines 960-1013), called first by
\* __aenter__ (line 120): a failed check is raised as RuntimeError.
FetchTenantCredentialsFromJson ==
    /\ boot.pc = "new"
    /\ boot' = [boot EXCEPT !.pc = IF CredentialsComplete(boot) THEN "credentials"
                                   ELSE "raised"]
    /\ UNCHANGED <<backup_vars, transport_vars, client, auth_vars, pipe>>

\* __aenter__ from the connector to the semaphores (lines 123-155): the
\* session is opened and the four semaphores are created.
OpenSession ==
    /\ boot.pc = "credentials"
    /\ boot' = [boot EXCEPT !.pc = "session", !.sessions = @ + 1]
    /\ api_semaphore' = max_concurrent_api_calls
    /\ endpoint_semaphore' = max_concurrent_endpoints
    /\ detail_semaphore' = max_detail_calls_per_endpoint
    /\ resource_semaphore' = max_resource_discovery
    /\ UNCHANGED <<test_mode, server, enabled_global, enabled_resource, orch,
                   backup_summary, summary_writes, collected_resource_ids,
                   available_resources, run, rend, transport_vars, client, auth_vars,
                   pipe>>

\* setup_authentication (authentication.py lines 95-120): an API token needs
\* no request; OAuth credentials alone request a token, and the failure to
\* get one raises; no credentials at all raise.
SetupAuthentication ==
    /\ boot.pc = "session"
    /\ \E granted \in BOOLEAN :
          boot' = IF boot.api_token
                  THEN [boot EXCEPT !.pc = "entered", !.headers = "SSWS"]
                  ELSE IF boot.oauth
                       THEN [boot EXCEPT !.auth_requests = @ + 1,
                                         !.pc = IF granted THEN "entered" ELSE "raised",
                                         !.headers = IF granted THEN "Bearer" ELSE @]
                       ELSE [boot EXCEPT !.pc = "raised"]
    /\ UNCHANGED <<backup_vars, transport_vars, client, auth_vars, pipe>>

-----------------------------------------------------------------------------
(* The authenticator: OktaAuthenticator.                                   *)

\* An Authorization header: its kind and, for Bearer, the token it carries.
NoHeaders == [kind |-> "none", token |-> 0]
SSWS == [kind |-> "SSWS", token |-> 0]
Bearer(token) == [kind |-> "Bearer", token |-> token]

\* self.token_expires_at: None, or a time
NoExpiry == [set |-> FALSE, at |-> 0]
ExpiresAt(t) == [set |-> TRUE, at |-> t]

\* An authenticator with the credentials given to it (lines 15-38):
\* access_token is 0 for None and else the number of the token; expires is
\* the time at which the server lets the last granted token expire;
\* token_requests counts the POSTs to /oauth2/v1/token, posts those not yet
\* answered, granted the tokens handed out.
Authenticator(api_token, oauth) ==
    [api_token |-> api_token, oauth |-> oauth, pc |-> "new",
     access_token |-> 0, token_expires_at |-> NoExpiry, expires |-> 0,
     headers |-> NoHeaders, token_requests |-> 0, posts |-> 0, granted |-> 0]

\* Line 71 without the safety margin
TokenExpiresAtExpiry(t, expires_in) == ExpiresAt(t + expires_in)

\* Line 71: datetime.now() + timedelta(seconds=expires_in - 300)
TokenExpiresAt(t, expires_in) == ExpiresAt(t + expires_in - safety_margin)

\* The test of ensure_valid_token (lines 86-87)
TokenValid(a, t) ==
    a.access_token # 0 /\ a.token_expires_at.set /\ t < a.token_expires_at.at

\* What the authorization server answers to a token request: a refusal
\* (any status but 200, an exception, a body without access_token), or a
\* token with its expires_in.
TokenAnswers ==
    {[granted |-> FALSE, expires_in |-> 0]} \cup
    {[granted |-> TRUE, expires_in |-> e] : e \in {300, 600}}

\* The authenticator when a token request is answered (lines 61-81 and 92).
AfterTokenAnswer(a, answer, t) ==
    IF answer.granted
    THEN [a EXCEPT !.posts = @ - 1, !.granted = @ + 1,
                   !.access_token = a.granted + 1,
                   !.token_expires_at = TokenExpiresAt(t, answer.expires_in),
                   !.expires = t + answer.expires_in]
    ELSE [a EXCEPT !.posts = @ - 1, !.access_token = 0]

HeaderCallers == 1..MaxCallers

\* A caller of get_headers: what its current call found (the cached token,
\* its expiry at the server, the tokens granted so far, the time), the token
\* requests the call sent, the answer to the last of them, and the headers
\* it returned.
NewHeaderCall ==
    [pc |-> "idle",
     found |-> [access_token |-> 0, expires |-> 0, granted |-> 0, at |-> 0],
     requests |-> 0, answered |-> "none", headers |-> NoHeaders, calls |-> 0]

\* setup_authentication up to its return or its token request (lines
\* 95-109 and 119-120).
SetupAuth ==
    /\ auth.pc = "new"
    /\ auth' = IF auth.api_token
               THEN [auth EXCEPT !.pc = "ready", !.headers = SSWS]
               ELSE IF auth.oauth
                    THEN [auth EXCEPT !.pc = "setup", !.token_requests = @ + 1,
                                      !.posts = @ + 1]
                    ELSE [auth EXCEPT !.pc = "raised"]
    /\ UNCHANGED <<backup_vars, transport_vars, client, boot, hdr, pipe>>

\* The token request of setup_authentication is answered (lines 109-117).
SetupAuthAnswer ==
    /\ auth.pc = "setup"
    /\ \E answer \in TokenAnswers :
          LET a == AfterTokenAnswer(auth, answer, now)
          IN  auth' = IF answer.granted
                      THEN [a EXCEPT !.pc = "ready", !.headers = Bearer(a.access_token)]
                      ELSE [a EXCEPT !.pc = "raised"]
    /\ UNCHANGED <<backup_vars, transport_vars, client, boot, hdr, pipe>>

\* get_headers up to its return or its token request (lines 124-137 with
\* 83-92 and 40-61): with only OAuth credentials a token that is no longer
\* valid is requested anew; otherwise the stored headers are returned.
GetHeaders(c) ==
    /\ auth.pc = "ready"
    /\ hdr[c].pc \in {"idle", "returned", "raised"}
    /\ hdr[c].calls < MaxHeaderCalls
    /\ LET found == [access_token |-> auth.access_token, expires |-> auth.expires,
                     granted |-> auth.granted, at |-> now]
           entered == [NewHeaderCall EXCEPT !.found = found,
                                            !.calls = hdr[c].calls + 1]
       IN  IF auth.oauth /\ ~auth.api_token
           THEN IF TokenValid(auth, now)
                THEN /\ auth' = [auth EXCEPT !.headers = Bearer(auth.access_token)]
                     /\ hdr' = [hdr EXCEPT ![c] =
                                  [entered EXCEPT !.pc = "returned",
                                                  !.headers = Bearer(auth.access_token)]]
                ELSE /\ auth' = [auth EXCEPT !.token_requests = @ + 1, !.posts = @ + 1]
                     /\ hdr' = [hdr EXCEPT ![c] =
                                  [entered EXCEPT !.pc = "fetching", !.requests = 1]]
           ELSE /\ hdr' = [hdr EXCEPT ![c] =
                             [entered EXCEPT !.pc = "returned", !.headers = auth.headers]]
                /\ UNCHANGED auth
    /\ UNCHANGED <<backup_vars, transport_vars, client, boot, pipe>>

\* The token request of a get_headers call is answered (lines 61-81, 92-93
\* and 128-137).
TokenAnswer(c) ==
    /\ hdr[c].pc = "fetching"
    /\ \E answer \in TokenAnswers :
          LET a == AfterTokenAnswer(auth, answer, now)
          IN  IF answer.granted
              THEN /\ auth' = [a EXCEPT !.headers = Bearer(a.access_token)]
                   /\ hdr' = [hdr EXCEPT ![c].pc = "returned",
                                         ![c].answered = "granted",
                                         ![c].headers = Bearer(a.access_token)]
              ELSE /\ auth' = a
                   /\ hdr' = [hdr EXCEPT ![c].pc = "raised", ![c].answered = "refused"]
    /\ UNCHANGED <<backup_vars, transport_vars, client, boot, pipe>>

\* Five minutes pass.
AuthTick ==
    /\ now + 300 <= MaxAuthTime
    /\ now' = now + 300
    /\ UNCHANGED <<backup_vars, limiter, call, client, boot, auth_vars, pipe>>

-----------------------------------------------------------------------------
(* The staged pipeline: iga_pipeline._run_pipeline_async.                  *)

\* Parser.parse_object (parser.py lines 13-22): the modelled objects carry
\* neither 'name' nor 'title', so display_name is the default "".
ParseObjectUntagged(resource, raw) ==
    [object_type |-> "", external_id |-> raw.id, display_name |-> "", data |-> raw]

ParseObject(resource, raw) ==
    [object_type |-> resource, external_id |-> raw.id, display_name |-> "", data |-> raw]

\* Parser.parse_many (parser.py lines 24-25)
ParseMany(resource, payload) ==
    [i \in DOMAIN payload |-> ParseObject(resource, payload[i])]

\* _limit (pipeline.py lines 31-34), called with -1 for a limit of None
\* (line 59)
Limit(items, limit) ==
    IF limit < 0 THEN items ELSE SubSeq(items, 1, Min(limit, Len(items)))

\* _resource_ids_from (pipeline.py lines 16-28): the set it returns, and
\* whether it raises instead (target.get on an entry that is not a mapping,
\* line 25; nothing catches it inside the function).
ResourceIdsFrom(endpoint, items) ==
    UNION {ExtractResourceIds(items[i], GlobalName(endpoint)) : i \in DOMAIN items}

ResourceIdsFromRaises(endpoint, items) ==
    /\ endpoint = "campaigns"
    /\ \E i \in DOMAIN items : \E j \in DOMAIN items[i].targets :
           items[i].targets[j] = NotAMapping

\* What _fetch_resource does before its limit is applied: fetch_paginated
\* returns a list of items, or an exception leaves it.
Fetched(items) == [raised |-> FALSE, items |-> items]
FetchRaised == [raised |-> TRUE, items |-> <<>>]
GlobalFetches ==
    {FetchRaised} \cup
    {Fetched(items) : items \in SeqsUpTo({ObjA, ObjNoId, ObjMalformed}, MaxItems)}
ResourceFetches == {FetchRaised, Fetched(<<>>), Fetched(<<ObjPlain>>)}

\* summary["written"][name]: a number of records, or an error text
Written(count) == [error |-> FALSE, count |-> count]
WrittenError == [error |-> TRUE, count |-> 0]

\* One call of sink.write: its arguments and whether it raised.
SinkWrite(resource, records, raised) ==
    [resource |-> resource, records |-> records, raised |-> raised]

\* The sequences without repetition over a set of ids (the orders in which
\* list(set) may enumerate it).
RECURSIVE Orders(_)
Orders(ids) ==
    IF ids = {} THEN {<<>>}
    ELSE UNION {{<<x>> \o rest : rest \in Orders(ids \ {x})} : x \in ids}

\* resource_ids of lines 102-104: the collected ids in some order, cut to
\* resources_per_context when that is positive.
Targets(ids, resources_per_context) ==
    {IF resources_per_context > 0
     THEN SubSeq(order, 1, Min(resources_per_context, Len(order)))
     ELSE order : order \in Orders(ids)}

\* A call of _run_pipeline_async up to its loop over the global endpoints
\* (lines 68-89): the enabled endpoints still to do, the two limits, and the
\* history of the fetches made, of the calls of sink.write and of
\* summary["written"] and summary["resource_ids"].
NewPipeline(globals, resources, object_limit, resources_per_context) ==
    [pc |-> IF globals = <<>> THEN "resource" ELSE "global",
     globals |-> globals, resources |-> resources,
     object_limit |-> object_limit, resources_per_context |-> resources_per_context,
     fetched |-> <<>>, sink |-> <<>>, written |-> [n \in {} |-> WrittenError],
     resource_ids |-> {}, targets |-> <<>>]

SetWritten(written, name, value) ==
    [n \in DOMAIN written \cup {name} |-> IF n = name THEN value ELSE written[n]]

\* One turn of the loop over the global endpoints (lines 91-99): an exception
\* of the fetch, of sink.write or of _resource_ids_from is caught and leaves
\* an error text in summary["written"], the last of them after the count was
\* stored (lines 96-99). After the last turn the resource ids are listed
\* (lines 102-104).
PipeGlobal ==
    /\ pipe.pc = "global"
    /\ \E outcome \in GlobalFetches, sink_raises \in BOOLEAN :
          LET name == Head(pipe.globals)
              rest == Tail(pipe.globals)
              items == Limit(outcome.items, pipe.object_limit)
              parsed == ParseMany(name, items)
              tried == [pipe EXCEPT !.globals = rest,
                                    !.fetched = Append(@, [name |-> name, rid |-> "",
                                                           raised |-> outcome.raised,
                                                           items |-> outcome.items])]
              after == IF outcome.raised
                       THEN [tried EXCEPT !.written = SetWritten(@, name, WrittenError)]
                       ELSE IF sink_raises
                       THEN [tried EXCEPT !.sink = Append(@, SinkWrite(name, parsed, TRUE)),
                                          !.written = SetWritten(@, name, WrittenError)]
                       ELSE IF ResourceIdsFromRaises(name, items)
                       THEN [tried EXCEPT !.sink = Append(@, SinkWrite(name, parsed, FALSE)),
                                          !.written = SetWritten(@, name, WrittenError)]
                       ELSE [tried EXCEPT !.sink = Append(@, SinkWrite(name, parsed, FALSE)),
                                          !.written = SetWritten(@, name, Written(Len(parsed))),
                                          !.resource_ids = @ \cup ResourceIdsFrom(name, items)]
          IN  /\ outcome.raised => ~sink_raises
              /\ IF rest = <<>>
                 THEN \E targets \in Targets(after.resource_ids, pipe.resources_per_context) :
                         pipe' = [after EXCEPT !.pc = "resource", !.targets = targets]
                 ELSE pipe' = after
    /\ UNCHANGED <<backup_vars, transport_vars, client, boot, auth_vars>>

\* The items of the fetches that returned, in the order of the targets, each
\* cut to the object limit (lines 113-118).
RECURSIVE Aggregated(_, _)
Aggregated(outcomes, limit) ==
    IF outcomes = <<>> THEN <<>>
    ELSE (IF Head(outcomes).raised THEN <<>> ELSE Limit(Head(outcomes).items, limit))
         \o Aggregated(Tail(outcomes), limit)

\* One turn of the loop over the resource endpoints (lines 106-121): an
\* endpoint that requires a filter is skipped when there is no resource id;
\* otherwise it is fetched once per id, or once without id when there is
\* none, and the items of all fetches are written together. An exception of
\* sink.write leaves _run_pipeline_async. After the last turn the summary is
\* returned (line 123).
PipeResource ==
    /\ pipe.pc = "resource"
    /\ pipe.resources # <<>>
    /\ LET name == Head(pipe.resources)
           rest == Tail(pipe.resources)
           onward == [pipe EXCEPT !.resources = rest,
                                  !.pc = IF rest = <<>> THEN "done" ELSE "resource"]
           rids == IF pipe.targets = <<>> THEN <<"">> ELSE pipe.targets
       IN  IF resource_endpoints[name].requires_filter /\ pipe.targets = <<>>
           THEN pipe' = [onward EXCEPT !.written = SetWritten(@, name, Written(0))]
           ELSE \E outcomes \in [DOMAIN rids -> ResourceFetches], sink_raises \in BOOLEAN :
                   LET parsed == ParseMany(name, Aggregated(outcomes, pipe.object_limit))
                       fetched == [i \in DOMAIN rids |->
                                      [name |-> name, rid |-> rids[i],
                                       raised |-> outcomes[i].raised,
                                       items |-> outcomes[i].items]]
                   IN  pipe' = IF sink_raises
                               THEN [pipe EXCEPT !.pc = "raised",
                                                 !.fetched = @ \o fetched,
                                                 !.sink = Append(@, SinkWrite(name, parsed,
                                                                             TRUE))]
                               ELSE [onward EXCEPT
                                        !.fetched = @ \o fetched,
                                        !.sink = Append(@, SinkWrite(name, parsed, FALSE)),
                                        !.written = SetWritten(@, name,
                                                               Written(Len(parsed)))]
    /\ UNCHANGED <<backup_vars, transport_vars, client, boot, auth_vars>>

\* With no resource endpoint enabled the summary is returned after the
\* global endpoints.
PipeReturn ==
    /\ pipe.pc = "resource"
    /\ pipe.resources = <<>>
    /\ pipe' = [pipe EXCEPT !.pc = "done"]
    /\ UNCHANGED <<backup_vars, transport_vars, client, boot, auth_vars>>

-----------------------------------------------------------------------------
(* Specifications.                                                         *)

\* The state after construction and __aenter__ (lines 30-160), for one
\* configuration of the run and of the server.
InitRunWith(scenario, api, endpoints, details, discovery) ==
    /\ test_mode = scenario.test_mode
    /\ server = scenario.server
    /\ enabled_global = scenario.enabled_global
    /\ enabled_resource = scenario.enabled_resource
    /\ orch = "init"
    /\ backup_summary = [endpoints_backed_up |-> [n \in {} |-> 0], total_objects |-> 0]
    /\ summary_writes = 0
    /\ collected_resource_ids = {}
    /\ available_resources = <<>>
    /\ run = [t \in {} |-> 0]
    /\ rend = [e \in {} |-> 0]
    /\ api_semaphore = api
    /\ endpoint_semaphore = endpoints
    /\ detail_semaphore = details
    /\ resource_semaphore = discovery

\* The same with the capacities of the configuration under study.
InitRun(scenario) ==
    InitRunWith(scenario, max_concurrent_api_calls, max_concurrent_endpoints,
                max_detail_calls_per_endpoint, max_resource_discovery)

\* The same with the transport, the pipeline client and the construction at
\* rest.
InitWith(scenario) ==
    /\ InitRun(scenario)
    /\ now = 0
    /\ limiter = Limiter(50, 10)
    /\ call = <<>>
    /\ client = <<>>
    /\ boot = Booted
    /\ auth = <<>>
    /\ hdr = <<>>
    /\ pipe = <<>>

Scenario(test, globals, resources, profile) ==
    [test_mode |-> test, enabled_global |-> globals, enabled_resource |-> resources,
     server |-> [n \in globals \cup resources |-> profile[n]]]

\* Runs with several endpoints in each phase.
OrchScenarios ==
    {Scenario(FALSE, {"reviews", "campaigns"}, {"request_conditions"},
              [n \in {"reviews", "campaigns", "request_conditions"} |-> "orch"]),
     Scenario(FALSE, {"reviews", "request_settings_global"}, {"grants", "request_settings"},
              [n \in {"reviews", "request_settings_global", "grants", "request_settings"} |->
                  "orch"]),
     Scenario(FALSE, {"reviews", "campaigns", "request_settings_global"}, {},
              [n \in {"reviews", "campaigns", "request_settings_global"} |-> "orch"])}

\* Runs that study one endpoint alone: a global endpoint, or a resource
\* endpoint behind a seeded reviews endpoint.
EndpointScenarios ==
    {Scenario(test, {g}, {}, [n \in {g} |-> "alone"]) :
        test \in BOOLEAN, g \in {"reviews", "campaigns", "request_settings_global"}}
    \cup
    {Scenario(test, {"reviews"}, {e},
              [n \in {"reviews", e} |-> IF n = e THEN "alone" ELSE "seed"]) :
        test \in BOOLEAN, e \in {"grants", "request_conditions"}}

Init == \E scenario \in OrchScenarios : InitWith(scenario)

InitEndpoint == \E scenario \in EndpointScenarios : InitWith(scenario)

Next ==
    \/ RunCompleteBackup
    \/ \E t \in DOMAIN run : AcquireEndpoint(t)
    \/ \E t \in DOMAIN run : ListRequest(t)
    \/ \E t \in DOMAIN run : ListResponse(t)
    \/ \E t \in DOMAIN run : \E i \in DOMAIN run[t].det : DetailAcquire(t, i)
    \/ \E t \in DOMAIN run : \E i \in DOMAIN run[t].det : DetailRequest(t, i)
    \/ \E t \in DOMAIN run : \E i \in DOMAIN run[t].det : DetailResponse(t, i)
    \/ \E t \in DOMAIN run : GatherDetails(t)
    \/ Phase1Done
    \/ \E e \in DOMAIN rend : ProcessResourceEndpoint(e)
    \/ \E e \in DOMAIN rend : ResourceEndpointDone(e)
    \/ Phase2Done

Spec == Init /\ [][Next]_vars

SpecEndpoint == InitEndpoint /\ [][Next]_vars

\* The event loop runs every task that can run, and the server answers every
\* request: a step that stays possible is eventually taken.
FairSpec == Spec /\ WF_vars(Next)

\* The transport studied alone: callers of make_request against a rate
\* limiter of some configuration, no endpoint enabled.
InitTransport ==
    /\ InitRun(Scenario(FALSE, {}, {}, <<>>))
    /\ now = 0
    /\ \E rate \in {0, 1, 30, 60}, burst \in {0, 1, 2} : limiter = Limiter(rate, burst)
    /\ call = [c \in Callers |-> NewCall]
    /\ client = <<>>
    /\ boot = Booted
    /\ auth = <<>>
    /\ hdr = <<>>
    /\ pipe = <<>>

NextTransport ==
    \/ \E c \in Callers : MakeRequest(c)
    \/ \E c \in Callers : CheckRateLimit(c)
    \/ \E c \in Callers : RateLimitWake(c)
    \/ \E c \in Callers : Get(c)
    \/ \E c \in Callers : Response(c)
    \/ \E c \in Callers : RetryWake(c)
    \/ Tick

SpecTransport == InitTransport /\ [][NextTransport]_vars

\* The permits under every configuration of the semaphores with capacities
\* of 1 to MaxPermits (lines 152-155): the orchestrated run with its four
\* semaphores, and the callers of make_request with api_semaphore and the
\* lock of the rate limiter.
InitPermits ==
    \/ \E scenario \in OrchScenarios :
       \E api, endpoints, details, discovery \in 1..MaxPermits :
           /\ InitRunWith(scenario, api, endpoints, details, discovery)
           /\ now = 0
           /\ limiter = Limiter(50, 10)
           /\ call = <<>>
           /\ client = <<>>
           /\ boot = Booted
           /\ auth = <<>>
           /\ hdr = <<>>
           /\ pipe = <<>>
    \/ \E api \in 1..MaxPermits :
           /\ InitRunWith(Scenario(FALSE, {}, {}, <<>>), api, max_concurrent_endpoints,
                          max_detail_calls_per_endpoint, max_resource_discovery)
           /\ now = 0
           /\ \E rate \in {1, 60}, burst \in {0, 1} : limiter = Limiter(rate, burst)
           /\ call = [c \in Callers |-> NewCall]
           /\ client = <<>>
           /\ boot = Booted
           /\ auth = <<>>
           /\ hdr = <<>>
           /\ pipe = <<>>

\* The clock is let run only where a rate limiter reads it.
NextPermits ==
    \/ Next
    \/ \E c \in DOMAIN call : MakeRequest(c)
    \/ \E c \in DOMAIN call : CheckRateLimit(c)
    \/ \E c \in DOMAIN call : RateLimitWake(c)
    \/ \E c \in DOMAIN call : Get(c)
    \/ \E c \in DOMAIN call : Response(c)
    \/ \E c \in DOMAIN call : RetryWake(c)
    \/ call # <<>> /\ Tick

SpecPermits == InitPermits /\ [][NextPermits]_vars

\* One request of the pipeline client, for retry settings around the
\* defaults (10, 1.5, 300).
InitApiClient ==
    /\ InitRun(Scenario(FALSE, {}, {}, <<>>))
    /\ now = 0
    /\ limiter = Limiter(50, 10)
    /\ call = <<>>
    /\ \E delay \in {1, 10, 400}, multiplier \in {<<3, 2>>, <<2, 1>>}, cap \in {12, 300} :
          client = NewClient(delay, multiplier[1], multiplier[2], cap)
    /\ boot = Booted
    /\ auth = <<>>
    /\ hdr = <<>>
    /\ pipe = <<>>

NextApiClient ==
    \/ ApiRequest
    \/ ApiResponse
    \/ ApiWake

SpecApiClient == InitApiClient /\ [][NextApiClient]_vars

\* One endpoint studied alone with 1 to MaxPermits permits of api_semaphore,
\* so that the API permit is not what keeps the requests of a run apart.
InitPages ==
    \E scenario \in EndpointScenarios, api \in 1..MaxPermits :
        /\ InitRunWith(scenario, api, max_concurrent_endpoints,
                       max_detail_calls_per_endpoint, max_resource_discovery)
        /\ now = 0
        /\ limiter = Limiter(50, 10)
        /\ call = <<>>
        /\ client = <<>>
        /\ boot = Booted
        /\ auth = <<>>
        /\ hdr = <<>>
        /\ pipe = <<>>

SpecPages == InitPages /\ [][Next]_vars

\* The two transports side by side: callers of make_request, or one request
\* of the pipeline client. The clock is let run only where callers of
\* make_request read it.
InitRequests == InitTransport \/ InitApiClient

NextRequests ==
    \/ \E c \in DOMAIN call : MakeRequest(c)
    \/ \E c \in DOMAIN call : CheckRateLimit(c)
    \/ \E c \in DOMAIN call : RateLimitWake(c)
    \/ \E c \in DOMAIN call : Get(c)
    \/ \E c \in DOMAIN call : Response(c)
    \/ \E c \in DOMAIN call : RetryWake(c)
    \/ call # <<>> /\ Tick
    \/ client # <<>> /\ ApiRequest
    \/ client # <<>> /\ ApiResponse
    \/ client # <<>> /\ ApiWake

SpecRequests == InitRequests /\ [][NextRequests]_vars

\* The rate limiter under callers that may meet at its lock: 1 to MaxPermits
\* permits of api_semaphore, a rate of 0, 1 or 60 per minute.
InitAdmission ==
    /\ \E api \in 1..MaxPermits :
          InitRunWith(Scenario(FALSE, {}, {}, <<>>), api, max_concurrent_endpoints,
                      max_detail_calls_per_endpoint, max_resource_discovery)
    /\ now = 0
    /\ \E rate \in {0, 1, 60}, burst \in {0, 1} : limiter = Limiter(rate, burst)
    /\ call = [c \in Callers |-> NewCall]
    /\ client = <<>>
    /\ boot = Booted
    /\ auth = <<>>
    /\ hdr = <<>>
    /\ pipe = <<>>

\* The event loop resumes every task that can run: a caller that can enter
\* the lock does, a sleep ends, a GET that can be sent is sent, and the server
\* answers. Nothing obliges a task to call make_request or the clock to be
\* read later.
FairSpecAdmission ==
    /\ InitAdmission
    /\ [][NextTransport]_vars
    /\ \A c \in Callers :
          /\ WF_vars(CheckRateLimit(c))
          /\ WF_vars(RateLimitWake(c))
          /\ WF_vars(Get(c))
          /\ WF_vars(Response(c))
          /\ WF_vars(RetryWake(c))

\* process_filter_endpoint called by concurrent tasks, one endpoint each,
\* with a summary that is empty or already holds a backed-up endpoint.
InitFilter ==
    /\ test_mode = FALSE
    /\ server = <<>>
    /\ enabled_global = {}
    /\ enabled_resource = {}
    /\ orch = "init"
    /\ \E summary \in {[endpoints_backed_up |-> [n \in {} |-> 0], total_objects |-> 0],
                        RecordBasic([endpoints_backed_up |-> [n \in {} |-> 0],
                                     total_objects |-> 0],
                                    "reviews",
                                    Entry("success", "", 2, 1, 2, 0, 0, 0, 0))} :
          backup_summary = summary
    /\ summary_writes = 0
    /\ collected_resource_ids = {}
    /\ available_resources = <<>>
    /\ run = [t \in {} |-> 0]
    /\ rend = [e \in {} |-> 0]
    /\ api_semaphore \in 1..MaxPermits
    /\ endpoint_semaphore = max_concurrent_endpoints
    /\ detail_semaphore = max_detail_calls_per_endpoint
    /\ resource_semaphore = max_resource_discovery
    /\ now = 0
    /\ \E rate \in {0, 60}, burst \in {0, 1} : limiter = Limiter(rate, burst)
    /\ call = [c \in Callers |-> NewCall]
    /\ client = <<>>
    /\ boot = Booted
    /\ auth = <<>>
    /\ hdr = <<>>
    /\ pipe = <<>>

NextFilter ==
    \/ \E c \in Callers : MakeRequest(c)
    \/ \E c \in Callers : FilterCheckRateLimit(c)
    \/ \E c \in Callers : RateLimitWake(c)
    \/ \E c \in Callers : Get(c)
    \/ \E c \in Callers : FilterResponse(c)
    \/ \E c \in Callers : FilterRetryWake(c)
    \/ Tick

SpecFilter == InitFilter /\ [][NextFilter]_vars

\* The authenticator studied alone: set up with an API token, OAuth client
\* credentials or both, then asked for headers by concurrent callers.
InitAuth ==
    /\ InitRun(Scenario(FALSE, {}, {}, <<>>))
    /\ now = 0
    /\ limiter = Limiter(50, 10)
    /\ call = <<>>
    /\ client = <<>>
    /\ boot = Booted
    /\ \E api_token, oauth \in BOOLEAN : auth = Authenticator(api_token, oauth)
    /\ hdr = [c \in HeaderCallers |-> NewHeaderCall]
    /\ pipe = <<>>

NextAuth ==
    \/ SetupAuth
    \/ SetupAuthAnswer
    \/ \E c \in HeaderCallers : GetHeaders(c)
    \/ \E c \in HeaderCallers : TokenAnswer(c)
    \/ AuthTick

SpecAuth == InitAuth /\ [][NextAuth]_vars

\* The staged pipeline, for two selections of enabled endpoints and the
\* object and resource limits of the test and full modes.
InitPipeline ==
    /\ InitRun(Scenario(FALSE, {}, {}, <<>>))
    /\ now = 0
    /\ limiter = Limiter(50, 10)
    /\ call = <<>>
    /\ client = <<>>
    /\ boot = Booted
    /\ auth = <<>>
    /\ hdr = <<>>
    /\ \E selection \in {<<<<"reviews", "campaigns">>, <<"request_conditions">>>>,
                          <<<<"campaigns">>, <<"grants">>>>,
                          <<<<"reviews">>, <<>>>>},
          object_limit \in {-1, 0, 1}, resources_per_context \in {-1, 1} :
          pipe = NewPipeline(selection[1], selection[2], object_limit,
                             resources_per_context)

NextPipeline ==
    \/ PipeGlobal
    \/ PipeResource
    \/ PipeReturn

SpecPipeline == InitPipeline /\ [][NextPipeline]_vars

\* The run from its construction: any combination of present and missing
\* credential fields, then the backup of one global and one resource
\* endpoint.
InitBoot ==
    /\ InitRun(Scenario(FALSE, {"reviews"}, {"request_conditions"},
                        [n \in {"reviews", "request_conditions"} |-> "orch"]))
    /\ now = 0
    /\ limiter = Limiter(50, 10)
    /\ call = <<>>
    /\ client = <<>>
    /\ \E credentials_file, tenant, okta_domain, api_token, oauth \in BOOLEAN :
          boot = NewBoot(credentials_file, tenant, okta_domain, api_token, oauth)
    /\ auth = <<>>
    /\ hdr = <<>>
    /\ pipe = <<>>

\* run_complete_backup runs inside `async with` once __aenter__ has returned.
Backup ==
    /\ boot.pc = "entered"
    /\ Next

NextBoot ==
    \/ FetchTenantCredentialsFromJson
    \/ OpenSession
    \/ SetupAuthentication
    \/ Backup

SpecInit == InitBoot /\ [][NextBoot]_vars

-----------------------------------------------------------------------------
(* Properties.                                                             *)

Entries == backup_summary.endpoints_backed_up

RECURSIVE SumTotals(_)
SumTotals(names) ==
    IF names = {} THEN 0
    ELSE LET n == CHOOSE x \in names : TRUE
         IN  Entries[n].total_objects + SumTotals(names \ {n})

\* C1: in every state (a task records its result in one atomic segment, so
\* no state lies in the middle of a recording), and so in the summary that is
\* written, backup_summary.total_objects is the sum of total_objects over the
\* entries with status success, and every failed entry has total_objects 0.
C1_SummaryTotal ==
    /\ backup_summary.total_objects =
          SumTotals({n \in DOMAIN Entries : Entries[n].status = "success"})
    /\ \A n \in DOMAIN Entries : Entries[n].status = "failed" => Entries[n].total_objects = 0

\* The summary was written with a successful and a failed entry of phase 1
\* and an entry of phase 2 that holds objects.
C1_Witness ==
    /\ orch = "done"
    /\ \E n \in DOMAIN Entries : n \in enabled_global /\ Entries[n].status = "failed"
    /\ \E n \in DOMAIN Entries : n \in enabled_global /\ Entries[n].total_objects > 0
    /\ \E n \in DOMAIN Entries : n \in enabled_resource /\ Entries[n].total_objects > 1

C3_FailureIsolated ==
    /\ \A t \in GlobalTasks :
          run[t].pc = "returned" =>
             /\ t.type \in DOMAIN Entries
             /\ run[t].result.status \in {"failed", "exception"} =>
                   /\ Entries[t.type].status = "failed"
                   /\ Entries[t.type].total_objects = 0
             /\ run[t].result.status = "success" => Entries[t.type].status = "success"
    /\ \A e \in DOMAIN rend :
          rend[e].pc = "returned" =>
             /\ e \in DOMAIN Entries
             /\ Entries[e].failed_resources =
                   Cardinality({t \in SubRuns(e) : run[t].result.status # "success"})
             /\ Entries[e].successful_resources =
                   Cardinality({t \in SubRuns(e) : run[t].result.status = "success"})
             /\ Entries[e].resources_processed = Cardinality(SubRuns(e))
    /\ orch = "done" =>
          /\ \A t \in DOMAIN run : run[t].pc = "returned"
          /\ \A e \in DOMAIN rend : rend[e].pc = "returned"

\* The run ended with a global endpoint whose run raised beside one that
\* succeeded, and a resource endpoint with a raising and a successful sub-run.
C3_Witness ==
    /\ orch = "done"
    /\ \E t, u \in GlobalTasks :
          /\ run[t].result.status = "exception"
          /\ Entries[u.type].status = "success"
    /\ \E e \in DOMAIN rend :
          /\ \E t \in SubRuns(e) : run[t].result.status = "exception"
          /\ Entries[e].successful_resources > 0

\* C4: when the registry is empty at the end of phase 1, the summary that is
\* written holds, for every enabled resource endpoint, an entry with status
\* failed, reason no_resources_available and total_objects 0.
C4_NoResourcesEntries ==
    (orch = "done" /\ available_resources = <<>>) =>
        \A e \in enabled_resource :
            /\ e \in DOMAIN Entries
            /\ Entries[e].status = "failed"
            /\ Entries[e].reason = "no_resources_available"
            /\ Entries[e].total_objects = 0

\* The summary was written after a phase 1 that collected no resource id,
\* with resource endpoints enabled.
C4_Witness ==
    /\ orch = "done"
    /\ available_resources = <<>>
    /\ enabled_resource # {}
    /\ \A t \in GlobalTasks : run[t].pc = "returned"

\* C5: when the registry is empty at the end of phase 1, nothing of phase 2
\* calls make_request: no sub-run of a resource endpoint exists, let alone has
\* issued a list or a detail request, and every run of phase 1 has returned,
\* its requests answered.
C5_NoPhase2Requests ==
    (orch \in {"phase2", "done"} /\ collected_resource_ids = {}) =>
        /\ \A t \in DOMAIN run :
              t.idx > 0 => run[t].reqs = <<>> /\ run[t].detail_calls = 0
        /\ \A t \in DOMAIN run : t.idx > 0 => run[t].pc \in {"start", "returned"}
        /\ \A t \in GlobalTasks : run[t].pc = "returned"
        /\ api_semaphore = max_concurrent_api_calls

\* Phase 1 ended with objects backed up but no resource id collected, with
\* resource endpoints enabled.
C5_Witness ==
    /\ orch = "done"
    /\ collected_resource_ids = {}
    /\ enabled_resource # {}
    /\ \E n \in DOMAIN Entries : Entries[n].status = "success" /\ Entries[n].detailed_objects > 0

\* The objects on the list pages a run has fetched.
PageSizes(r) == [i \in DOMAIN r.pages |-> r.pages[i].n]

\* C6: a list request that fails ends pagination (it is the last request of
\* the run). When it is the first request the result is status failed,
\* reason request_failed, total_objects 0; when it comes after a fetched page
\* the run keeps what it fetched: unless a sink write raises afterwards, the
\* result is status success with total_objects the number of objects on the
\* pages already fetched.
C6_ListFailure ==
    \A t \in DOMAIN run :
        LET r == run[t]
        IN  r.failed_at > 0 =>
               /\ Len(r.reqs) = r.failed_at
               /\ r.pc \in {"gather", "returned"}
               /\ (r.pc = "returned" /\ r.failed_at = 1) =>
                     r.result = Failed("request_failed")
               /\ (r.pc = "returned" /\ r.failed_at > 1 /\ r.result.status # "exception") =>
                     /\ r.result.status = "success"
                     /\ r.result.total_objects = SumSeq(PageSizes(r))
                     /\ r.result.pages_fetched = r.failed_at - 1

\* A run whose second list request failed after a first page of two objects
\* returned success with total_objects 2.
C6_Witness ==
    \E t \in DOMAIN run :
        /\ run[t].pc = "returned"
        /\ run[t].failed_at = 2
        /\ PageSizes(run[t]) = <<2>>
        /\ run[t].result.status = "success"
        /\ run[t].result.total_objects = 2

\* A fetched page carries a next cursor: the code found a truthy next_url.
HasCursor(page) == ~page.raised /\ page.next.present

\* C7: with test mode off, a run whose list requests all succeeded and whose
\* fetched pages are all non-empty has followed the chain of cursors to its
\* end: of its k pages exactly the last carries no next cursor, it issued k
\* list requests, the first without `after` and request i+1 with the cursor of
\* page i, and (unless a sink write raised) it returned status success with
\* total_objects the sum of the k page sizes and pages_fetched k.
C7_PageChain ==
    \A t \in DOMAIN run :
        LET r == run[t]
            k == Len(r.pages)
        IN  (/\ ~test_mode
             /\ r.pc = "returned"
             /\ r.failed_at = 0
             /\ k >= 1
             /\ \A i \in 1..k : r.pages[i].n > 0) =>
               /\ \A i \in 1..k : HasCursor(r.pages[i]) <=> i < k
               /\ Len(r.reqs) = k
               /\ r.reqs[1] = ""
               /\ \A i \in 1..(k - 1) : r.reqs[i + 1] = r.pages[i].next.after
               /\ r.result.status # "exception" =>
                     /\ r.result.status = "success"
                     /\ r.result.total_objects = SumSeq(PageSizes(r))
                     /\ r.result.pages_fetched = k

\* A chain of two pages, of two objects and of one, was followed with the
\* cursor c1 and gave total_objects 3 and pages_fetched 2.
C7_Witness ==
    /\ ~test_mode
    /\ \E t \in DOMAIN run :
          /\ run[t].pc = "returned"
          /\ run[t].failed_at = 0
          /\ PageSizes(run[t]) = <<2, 1>>
          /\ run[t].reqs = <<"", "c1">>
          /\ run[t].result.status = "success"
          /\ run[t].result.total_objects = 3
          /\ run[t].result.pages_fetched = 2

\* C8: a run that returned after at least one answered list request with no
\* object on any fetched page (an empty page, a body of an unrecognised shape,
\* a body whose parsing raised) has the result status failed, reason
\* no_entities_discovered, total_objects 0, and has issued no detail request.
C8_NoEntities ==
    \A t \in DOMAIN run :
        LET r == run[t]
        IN  (r.pc = "returned" /\ Len(r.pages) >= 1 /\ SumSeq(PageSizes(r)) = 0) =>
               /\ r.result = Failed("no_entities_discovered")
               /\ r.detail_calls = 0

\* A run of an endpoint with a detail template returned after a first page
\* whose parsing raised.
C8_Witness ==
    \E t \in DOMAIN run :
        /\ run[t].pc = "returned"
        /\ run[t].config.detail /\ ~run[t].config.list_only
        /\ Len(run[t].pages) = 1
        /\ run[t].pages[1].n = 0 /\ run[t].pages[1].raised
        /\ run[t].result.reason = "no_entities_discovered"

\* C9: the successful result of an endpoint with a detail template that is
\* not list-only has detailed_objects + fallback_objects = total_objects,
\* whatever objects were listed (with or without `id`) and however the detail
\* calls ended.
C9_DetailAccounting ==
    \A t \in DOMAIN run :
        LET r == run[t]
        IN  (/\ r.pc = "returned"
             /\ r.config.detail /\ ~r.config.list_only
             /\ r.result.status = "success") =>
               r.result.detailed_objects + r.result.fallback_objects = r.result.total_objects

\* A run with a detail template returned success after detail calls of which
\* one succeeded and one fell back.
C9_Witness ==
    \E t \in DOMAIN run :
        /\ run[t].pc = "returned"
        /\ run[t].config.detail /\ ~run[t].config.list_only
        /\ run[t].result.status = "success"
        /\ run[t].result.detailed_objects >= 1
        /\ run[t].result.fallback_objects >= 1

\* C10: the list of resource ids handed to phase 2 holds each id of the
\* registry once and nothing else, however often and in whatever order the
\* detail tasks of reviews and campaigns inserted it; each resource endpoint
\* that has started its sub-runs has exactly one sub-run per id.
C10_UniqueResources ==
    /\ \A i, j \in DOMAIN available_resources :
          available_resources[i] = available_resources[j] => i = j
    /\ orch \in {"phase2", "done"} =>
          {available_resources[i] : i \in DOMAIN available_resources} = collected_resource_ids
    /\ \A e \in DOMAIN rend :
          rend[e].pc # "start" =>
             /\ Cardinality(SubRuns(e)) = Cardinality(collected_resource_ids)
             /\ \A id \in collected_resource_ids :
                   Cardinality({t \in SubRuns(e) : run[t].name.rid = id}) = 1

\* Phase 2 runs its sub-runs for the two ids that a review and a campaign,
\* both enriched, referenced: r1 was inserted by both.
C10_Witness ==
    /\ orch = "phase2"
    /\ collected_resource_ids = {"r1", "r2"}
    /\ "reviews" \in DOMAIN Entries /\ Entries["reviews"].detailed_objects = 1
    /\ "campaigns" \in DOMAIN Entries /\ Entries["campaigns"].detailed_objects = 1
    /\ \E e \in DOMAIN rend : rend[e].pc = "gather" /\ Cardinality(SubRuns(e)) = 2

\* The resource ids referenced by the bodies of the objects that the global
\* endpoint tasks listed.
ListedResourceIds ==
    UNION {UNION {ExtractResourceIds(b, run[t].name) : b \in run[t].bodies} :
              t \in GlobalTasks}

\* C11: once phase 1 has ended, the registry is exactly the set of non-empty
\* resourceId values of the objects listed by reviews and of the
\* targetResources entries of the objects listed by campaigns, each object
\* read in its detail body when its enrichment succeeded and as listed
\* otherwise; no listed object is left out and no other endpoint adds an id.
C11_RegistryContents ==
    orch \in {"phase2", "done"} => collected_resource_ids = ListedResourceIds

\* Phase 1 ended with a registry holding the ids of an enriched object.
C11_Witness ==
    /\ orch \in {"phase2", "done"}
    /\ collected_resource_ids # {}
    /\ \E t \in GlobalTasks : run[t].result.detailed_objects >= 1

\* A step taken once the registry has been read leaves the registry and every
\* phase-1 task as they are.
PhaseOneQuiet ==
    orch \in {"phase2", "done"} =>
        /\ collected_resource_ids' = collected_resource_ids
        /\ \A t \in GlobalTasks : run'[t] = run[t]

\* C12: the registry has been read, a resource endpoint task or a sub-run
\* exists, only when every phase-1 task has returned, its detail calls
\* answered and no request of it in flight; and from the reading of the
\* registry on no phase-1 task takes a step and the registry does not change.
C12_PhaseOrder ==
    /\ []((\/ orch \in {"phase2", "done"}
           \/ DOMAIN rend # {}
           \/ \E t \in DOMAIN run : t.idx > 0) =>
              \A t \in GlobalTasks :
                  /\ run[t].pc = "returned"
                  /\ run[t].det = <<>>)
    /\ [][PhaseOneQuiet]_vars

\* Phase 2 has a sub-run request in flight after a phase 1 in which two
\* endpoint tasks made detail calls.
C12_Witness ==
    /\ orch = "phase2"
    /\ \E t \in DOMAIN run : t.idx > 0 /\ run[t].pc = "list_wait"
    /\ Cardinality({t \in GlobalTasks : run[t].detail_calls >= 1}) = 2

-----------------------------------------------------------------------------
(* The transport.                                                          *)

\* C13: make_request answers a 429 by sleeping and sending the same GET
\* again: no call returns with a 429 as the last thing it heard.
C13_RetriesAfter429 ==
    \A c \in DOMAIN call :
        call[c].pc = "returned" =>
            /\ call[c].statuses # <<>>
            /\ call[c].statuses[Len(call[c].statuses)] # 429

C13_Witness ==
    \E c \in DOMAIN call :
        /\ call[c].pc = "returned"
        /\ call[c].statuses = <<429>>
        /\ call[c].gets = 1
        /\ call[c].result = "failed"
        /\ \E i \in DOMAIN call[c].sleeps : call[c].sleeps[i].kind = "retry_429"

\* C14: in ApiClient._request the wait before each further attempt is the
\* previous wait times backoff_multiplier, capped at max_retry_delay; the
\* waits never decrease and none of them, the first included, exceeds
\* max_retry_delay.
C14_BackoffSchedule ==
    client # <<>> =>
        LET waits == client.waits
            m == client.backoff_multiplier
        IN  /\ \A k \in 1..(Len(waits) - 1) :
                   /\ waits[k + 1] * m.den =
                          Min(waits[k] * m.num, client.max_retry_delay * m.den)
                   /\ waits[k + 1] >= waits[k]
            /\ \A k \in 1..Len(waits) : waits[k] <= client.max_retry_delay

C14_Witness ==
    /\ client # <<>>
    /\ Len(client.waits) >= 2
    /\ client.waits[1] > client.max_retry_delay
    /\ client.waits[2] = client.max_retry_delay

\* a caller that check_rate_limit has let through in its current call
Admitted(c) == call[c].pc \in {"get", "inflight", "retry_sleep", "returned"}

SleptForRateLimit(c) ==
    \E i \in DOMAIN call[c].sleeps : call[c].sleeps[i].kind = "rate_limit"

\* burst_size + floor((elapsed / 60) * rate_limit_per_minute) at the budget
\* check of the caller's admission
Budget(c) ==
    limiter.burst_size +
        ((call[c].found.current_time - call[c].found.start_time)
             * limiter.rate_limit_per_minute) \div 60

\* an admission raises request_count by exactly one, from 0 when the window
\* started over
CountsOne ==
    \A c \in DOMAIN call :
        /\ (call[c].pc = "check_rate_limit" /\ call'[c].pc = "get") =>
               limiter'.request_count =
                   (IF now - limiter.start_time >= 60 THEN 0
                    ELSE limiter.request_count) + 1
        /\ (call[c].pc = "rate_limit_sleep" /\ call'[c].pc = "get") =>
               limiter'.request_count = limiter.request_count + 1

\* C15: an admission that finds request_count at or above burst_size +
\* floor((elapsed / 60) * rate_limit_per_minute) sleeps before it is let
\* through, one that finds it below is let through without sleeping, and
\* every admission raises request_count by exactly one.
C15_Admission ==
    /\ [](\A c \in DOMAIN call :
              /\ call[c].pc = "rate_limit_sleep" =>
                     call[c].found.request_count >= Budget(c)
              /\ Admitted(c) =>
                     /\ call[c].found.request_count >= Budget(c) <=> SleptForRateLimit(c)
                     /\ call[c].found.after = call[c].found.request_count + 1)
    /\ [][CountsOne]_vars

C15_Witness ==
    \E c, d \in DOMAIN call :
        /\ Admitted(c) /\ SleptForRateLimit(c)
        /\ Admitted(d) /\ ~SleptForRateLimit(d)
        /\ call[d].found.request_count >= 1
        /\ call[d].found.request_count >= limiter.burst_size
        /\ call[d].found.current_time > call[d].found.start_time

\* an arrival at least 60 seconds after the window start sets the window
\* start to the time of arrival and meets a request_count of 0
ResetOnArrival ==
    \A c \in DOMAIN call :
        (/\ call[c].pc = "check_rate_limit"
         /\ call'[c].pc # "check_rate_limit"
         /\ now - limiter.start_time >= 60) =>
            /\ limiter'.start_time = now
            /\ call'[c].found.reset
            /\ call'[c].found.request_count = 0
            /\ call'[c].pc = "get" => limiter'.request_count = 1
            /\ call'[c].pc = "rate_limit_sleep" => limiter'.request_count = 0

\* C16: an admission that arrives 60 seconds or more after the start of the
\* window sets request_count to 0 and the window start to the current time
\* before the budget check, so request_count is 1 right after the admission.
C16_WindowReset ==
    /\ [](\A c \in DOMAIN call :
              (call[c].found.reset /\ (Admitted(c) \/ call[c].pc = "rate_limit_sleep")) =>
                  /\ call[c].found.request_count = 0
                  /\ call[c].found.start_time = call[c].found.current_time
                  /\ Admitted(c) => call[c].found.after = 1)
    /\ [][ResetOnArrival]_vars

C16_Witness ==
    \E c, d \in DOMAIN call :
        /\ Admitted(d) /\ ~call[d].found.reset
        /\ Admitted(c) /\ call[c].found.reset
        /\ call[c].found.current_time >= call[d].found.current_time + 60
        /\ limiter.request_count = 1

\* C17: every sleep is bounded: a rate-limit sleep lasts at most 60 seconds
\* and a sleep after a 429 at most max_retry_delay seconds, whether its
\* length comes from the Retry-After header or from retry_429_delay.
C17_SleepsBounded ==
    \A c \in DOMAIN call :
        \A i \in DOMAIN call[c].sleeps :
            /\ call[c].sleeps[i].kind = "rate_limit" => call[c].sleeps[i].seconds <= 60
            /\ call[c].sleeps[i].kind = "retry_429" =>
                   call[c].sleeps[i].seconds <= max_retry_delay

C17_Witness ==
    \E c \in DOMAIN call :
        /\ call[c].pc = "retry_sleep"
        /\ call[c].statuses = <<429>>
        /\ call[c].wake - now > max_retry_delay
        /\ \E i \in DOMAIN call[c].sleeps : call[c].sleeps[i] = [kind |-> "rate_limit", seconds |-> 60]

-----------------------------------------------------------------------------
(* The permits.                                                            *)

\* detail tasks of all runs in one of the given states
DetailsIn(states) ==
    UNION {{<<t, i>> : i \in {j \in DOMAIN run[t].det : run[t].det[j].st \in states}} :
              t \in DOMAIN run}

\* GETs sent and not yet answered
InFlightGets ==
    Cardinality({t \in DOMAIN run : run[t].pc = "list_wait"}) +
    Cardinality(DetailsIn({"inflight"}))

\* runs inside `async with self.endpoint_semaphore`
PipelinesInProgress == {t \in DOMAIN run : run[t].pc \in {"list", "list_wait", "gather"}}

\* C18: the holders of each permit never exceed its capacity: GETs in flight
\* are at most max_concurrent_api_calls, endpoint pipelines in progress
\* (global endpoints and per-resource-id sub-runs together) at most
\* max_concurrent_endpoints, detail calls in progress at most
\* max_detail_calls_per_endpoint.
C18_PermitCapacity ==
    /\ InFlightGets <= max_concurrent_api_calls
    /\ Cardinality(PipelinesInProgress) <= max_concurrent_endpoints
    /\ Cardinality(DetailsIn({"wait_api", "inflight"})) <= max_detail_calls_per_endpoint

C18_Witness ==
    /\ InFlightGets = max_concurrent_api_calls
    /\ Cardinality(PipelinesInProgress) = max_concurrent_endpoints
    /\ Cardinality(DetailsIn({"wait_api", "inflight"})) = max_detail_calls_per_endpoint
    /\ \E t \in DOMAIN run : run[t].pc = "start"
    /\ \E t \in DOMAIN run : run[t].pc = "list"

\* per-resource-id sub-runs whose fetch pipeline is in progress
SubRunsInProgress == {t \in PipelinesInProgress : t.idx > 0}

\* C19: in phase 2 the resource-discovery permit is held around each
\* per-resource-id sub-run, so the sub-runs whose fetch pipeline is in
\* progress never exceed max_resource_discovery.
C19_SubRunsBounded ==
    Cardinality(SubRunsInProgress) <= max_resource_discovery

C19_Witness ==
    /\ resource_semaphore = 0
    /\ Cardinality(SubRunsInProgress) = max_resource_discovery + 1
    /\ \A t \in SubRunsInProgress : run[t].pc = "list"

-----------------------------------------------------------------------------
(* Construction.                                                           *)

\* the tenant is not found, has no domain, or has no usable credential
MissingRequiredField ==
    \/ ~boot.credentials_file
    \/ ~boot.tenant
    \/ ~boot.okta_domain
    \/ ~boot.api_token /\ ~boot.oauth

\* C20: a missing required credential field is fatal before any network
\* call: no session is opened, no authentication request and no endpoint
\* request is sent, and no summary is written.
C20_FatalBeforeNetwork ==
    MissingRequiredField =>
        /\ boot.pc \in {"new", "raised"}
        /\ boot.sessions = 0
        /\ boot.auth_requests = 0
        /\ orch = "init"
        /\ DOMAIN run = {}
        /\ summary_writes = 0

C20_Witness ==
    /\ boot.pc = "raised"
    /\ boot.credentials_file /\ boot.tenant /\ boot.okta_domain
    /\ ~boot.api_token /\ ~boot.oauth

\* the tenant supplies an OAuth client id and secret and no API token, and
\* nothing else is missing
OAuthOnlyTenant ==
    /\ boot.credentials_file /\ boot.tenant /\ boot.okta_domain
    /\ boot.oauth /\ ~boot.api_token

\* C21: the authentication mode of a run is selected by the credential
\* fields the tenant supplies: with an API token the run authenticates with
\* SSWS, with only an OAuth client id and secret it authenticates with Bearer
\* (so such a tenant is turned away only when its token request fails), and
\* the two are never mixed.
C21_ModeSelected ==
    /\ boot.pc = "entered" =>
           boot.headers = (IF boot.api_token THEN "SSWS" ELSE "Bearer")
    /\ (OAuthOnlyTenant /\ boot.pc = "raised") => boot.auth_requests >= 1

C21_Witness ==
    /\ OAuthOnlyTenant
    /\ boot.pc = "raised"
    /\ boot.sessions = 0
    /\ boot.auth_requests = 0

-----------------------------------------------------------------------------
(* The authenticator.                                                      *)

\* the authenticator has only OAuth client credentials
OAuthActive == auth # <<>> /\ auth.oauth /\ ~auth.api_token

\* the call of c was made with a cached token and earlier than five minutes
\* before the expiry of that token
Fresh(c) ==
    /\ hdr[c].found.access_token # 0
    /\ hdr[c].found.at < hdr[c].found.expires - safety_margin

\* C22: with OAuth active a get_headers call made earlier than the token's
\* expiry minus 5 minutes sends no token request and returns the cached
\* token; a call made at or after that instant, or with no cached token,
\* requests a new token before it returns headers, and raises instead of
\* returning headers when the request fails.
C22_LazyRefresh ==
    OAuthActive =>
        \A c \in DOMAIN hdr :
            /\ (hdr[c].pc = "returned" /\ Fresh(c)) =>
                   /\ hdr[c].requests = 0
                   /\ hdr[c].headers = Bearer(hdr[c].found.access_token)
            /\ (hdr[c].pc = "returned" /\ ~Fresh(c)) =>
                   /\ hdr[c].requests = 1
                   /\ hdr[c].answered = "granted"
                   /\ hdr[c].headers.kind = "Bearer"
                   /\ hdr[c].headers.token > hdr[c].found.granted
            /\ hdr[c].pc = "fetching" => (~Fresh(c) /\ hdr[c].requests = 1)
            /\ hdr[c].pc = "raised" =>
                   (~Fresh(c) /\ hdr[c].requests = 1 /\ hdr[c].answered = "refused")

C22_Witness ==
    /\ OAuthActive
    /\ \E c, d \in DOMAIN hdr :
           /\ hdr[c].pc = "returned" /\ Fresh(c) /\ hdr[c].found.at > 0
           /\ hdr[d].pc = "returned" /\ ~Fresh(d) /\ hdr[d].found.access_token # 0
           /\ hdr[d].calls = 2

\* C24: with OAuth active and several callers inside get_headers, one token
\* request is sent for an expired or missing token: no two token requests
\* are in flight at the same time, and no two callers are refreshing the
\* same cached token.
C24_SingleRefresh ==
    OAuthActive =>
        /\ auth.posts <= 1
        /\ \A c, d \in DOMAIN hdr :
               (/\ hdr[c].pc = "fetching" /\ hdr[d].pc = "fetching"
                /\ hdr[c].found.granted = hdr[d].found.granted) => c = d

C24_Witness ==
    /\ OAuthActive
    /\ auth.posts = 2
    /\ \E c, d \in DOMAIN hdr :
           /\ c # d
           /\ hdr[c].pc = "fetching" /\ hdr[d].pc = "fetching"
           /\ hdr[c].found = hdr[d].found
           /\ hdr[c].found.access_token # 0

-----------------------------------------------------------------------------
(* The staged pipeline.                                                    *)

\* the fetches of global endpoints that returned at least one item
GlobalFetchesWithItems ==
    {i \in DOMAIN pipe.fetched :
        /\ pipe.fetched[i].name \in DOMAIN global_endpoints
        /\ ~pipe.fetched[i].raised
        /\ Len(pipe.fetched[i].items) >= 1}

\* the calls of sink.write under a name
WritesUnder(name) == {j \in DOMAIN pipe.sink : pipe.sink[j].resource = name}

\* the items of fetch i kept after the object limit
Kept(i) ==
    LET items == pipe.fetched[i].items
    IN  IF pipe.object_limit < 0 \/ pipe.object_limit >= Len(items) THEN items
        ELSE [k \in 1..pipe.object_limit |-> items[k]]

\* write j holds the parsed form of the kept items of fetch i, each record
\* tagged with the endpoint name
HoldsParsed(j, i) ==
    /\ Len(pipe.sink[j].records) = Len(Kept(i))
    /\ \A k \in DOMAIN pipe.sink[j].records :
           /\ pipe.sink[j].records[k].object_type = pipe.fetched[i].name
           /\ pipe.sink[j].records[k].external_id = Kept(i)[k].id
           /\ pipe.sink[j].records[k].data = Kept(i)[k]

HasMalformedTarget(obj) == \E k \in DOMAIN obj.targets : obj.targets[k] = NotAMapping

\* The kept items of fetch i make the extraction of resource ids raise: the
\* endpoint is campaigns and one of them has a malformed targetResources
\* entry.
ExtractionRaisesOn(i) ==
    /\ pipe.fetched[i].name = "campaigns"
    /\ \E k \in DOMAIN Kept(i) : HasMalformedTarget(Kept(i)[k])

-----------------------------------------------------------------------------
(* The pagination loop and its cursors.                                    *)

\* C25: no two list requests of one endpoint run carry the same cursor (the
\* same `after` value, or both none), whatever next link or `next` field the
\* pages carry, so that the pagination loop ends on every finite chain.
C25_CursorsDiffer ==
    \A t \in DOMAIN run :
        \A i, j \in DOMAIN run[t].reqs :
            i # j => run[t].reqs[i] # run[t].reqs[j]

\* The first page came with a next link whose URL has no `after` parameter,
\* and the run sent its second list request, again without a cursor.
C25_Witness ==
    \E t \in DOMAIN run :
        /\ ~test_mode
        /\ Len(run[t].pages) >= 1
        /\ HasCursor(run[t].pages[1])
        /\ run[t].pages[1].next.after = ""
        /\ run[t].reqs = <<"", "">>


-----------------------------------------------------------------------------
(* The permits.                                                            *)

\* A detail task that cannot go on: it waits for a permit of a semaphore
\* that has none (lines 565 and 203).
DetailWaits(d) ==
    \/ d.st = "wait_detail" /\ detail_semaphore = 0
    \/ d.st = "wait_api" /\ api_semaphore = 0

DetailUnfinished(d) == d.st \in {"wait_detail", "wait_api", "inflight"}

\* An unfinished endpoint run none of whose coroutines can go on without a
\* permit: the run itself waits at endpoint_semaphore or at api_semaphore,
\* or it awaits its detail tasks and each unfinished one of them waits.
RunWaits(t) ==
    \/ run[t].pc = "start" /\ endpoint_semaphore = 0
    \/ run[t].pc = "list" /\ api_semaphore = 0
    \/ /\ run[t].pc = "gather"
       /\ \E i \in DOMAIN run[t].det : DetailUnfinished(run[t].det[i])
       /\ \A i \in DOMAIN run[t].det :
              DetailUnfinished(run[t].det[i]) => DetailWaits(run[t].det[i])

\* The same for a process_resource_endpoint task: it waits at
\* resource_semaphore, or it awaits sub-runs that all wait.
ResourceEndpointWaits(e) ==
    \/ rend[e].pc = "start" /\ available_resources # <<>> /\ resource_semaphore = 0
    \/ /\ rend[e].pc = "gather"
       /\ \E t \in SubRuns(e) : run[t].pc # "returned"
       /\ \A t \in SubRuns(e) : run[t].pc # "returned" => RunWaits(t)

\* A caller of make_request that cannot go on: it waits for a permit of
\* api_semaphore (line 203) or for rate_limit_lock (line 171).
CallWaits(c) ==
    \/ /\ call[c].pc \in {"idle", "returned", "raised"}
       /\ call[c].calls < MaxCalls
       /\ api_semaphore = 0
    \/ call[c].pc = "check_rate_limit" /\ limiter.rate_limit_lock # 0

UnfinishedCalls ==
    {c \in DOMAIN call : call[c].pc \notin {"returned", "raised"} \/ call[c].calls < MaxCalls}

UnfinishedRuns == {t \in DOMAIN run : run[t].pc # "returned"}
UnfinishedResourceEndpoints == {e \in DOMAIN rend : rend[e].pc # "returned"}

\* C26: whatever the capacities of the semaphores, as long as a task is
\* unfinished some unfinished task is not waiting for a permit or for the
\* lock of the rate limiter: no state has every unfinished task blocked.
C26_NoDeadlock ==
    /\ (UnfinishedRuns # {} \/ UnfinishedResourceEndpoints # {}) =>
           \/ \E t \in UnfinishedRuns : ~RunWaits(t)
           \/ \E e \in UnfinishedResourceEndpoints : ~ResourceEndpointWaits(e)
    /\ UnfinishedCalls # {} => \E c \in UnfinishedCalls : ~CallWaits(c)

\* With one permit of each kind, one run holds the API permit for its list
\* request while a second run, holding the only detail permit, waits for the
\* API permit and a third waits for its endpoint permit.
C26_Witness ==
    /\ api_semaphore = 0 /\ detail_semaphore = 0 /\ endpoint_semaphore = 0
    /\ \E t, u, v \in UnfinishedRuns :
          /\ run[t].pc = "list_wait"
          /\ RunWaits(u) /\ run[u].pc = "gather"
          /\ \E i \in DOMAIN run[u].det : run[u].det[i].st = "wait_api"
          /\ RunWaits(v) /\ run[v].pc = "start"

\* Two callers hold a permit of api_semaphore each; one sleeps inside the
\* lock of the rate limiter and the other waits for the lock.
C26_LockContended ==
    \E c, d \in DOMAIN call :
        /\ call[c].pc = "rate_limit_sleep" /\ limiter.rate_limit_lock = c
        /\ call[d].pc = "check_rate_limit" /\ CallWaits(d)

-----------------------------------------------------------------------------
(* Failed requests and 429 answers in the two transports.                  *)

\* A status of 400 or more other than 429, or a timeout or another
\* transport error (status 0).
ErrorStatus(status) == status = 0 \/ (status >= 400 /\ status # 429)

\* C27: an answer with a status of 400 or more other than 429, a timeout or
\* another transport error ends the call with that attempt: make_request has
\* returned a failure after the one GET it sent, and ApiClient._request has
\* returned a failure with no GET beyond the one that was answered so (one
\* GET in all unless 429 answers came first).
C27_ErrorsEndTheCall ==
    /\ \A c \in DOMAIN call :
           (call[c].statuses # <<>> /\ ErrorStatus(call[c].statuses[Len(call[c].statuses)])) =>
               /\ call[c].pc = "returned"
               /\ call[c].result = "failed"
               /\ call[c].gets = 1
    /\ (client # <<>> /\ ErrorStatus(client.answer.status)) =>
           /\ client.pc = "returned"
           /\ client.result = "failed"
           /\ client.gets = client.throttled + 1

\* One caller of make_request got a 500 to its only GET and another a
\* timeout, and both calls have returned a failure.
C27_Witness ==
    \E c, d \in DOMAIN call :
        /\ call[c].statuses = <<500>> /\ call[c].gets = 1 /\ call[c].result = "failed"
        /\ call[d].statuses = <<0>> /\ call[d].gets = 1 /\ call[d].result = "failed"

\* The pipeline client got a 500 to its only GET and has returned a failure.
C27_ClientWitness ==
    /\ client # <<>>
    /\ client.answer.status = 500
    /\ client.gets = 1
    /\ client.result = "failed"

\* C28: after a 429 answer the transport sleeps for the value of the
\* Retry-After header when the header is present and an integer, and for the
\* configured retry_429_delay otherwise, in make_request and in
\* ApiClient._request.
C28_RetryAfterHonoured ==
    /\ \A c \in DOMAIN call :
           call[c].pc = "retry_sleep" =>
               call[c].sleeps[Len(call[c].sleeps)].seconds =
                   (IF call[c].retry_after.present /\ call[c].retry_after.numeric
                    THEN call[c].retry_after.seconds
                    ELSE retry_429_delay)
    /\ (client # <<>> /\ client.pc = "sleep") =>
           client.waits[Len(client.waits)] =
               (IF client.answer.retry_after.present /\ client.answer.retry_after.numeric
                THEN client.answer.retry_after.seconds
                ELSE client.retry_429_delay)

\* The same for make_request alone.
C28_MakeRequestHonours ==
    \A c \in DOMAIN call :
        call[c].pc = "retry_sleep" =>
            /\ call[c].sleeps[Len(call[c].sleeps)].kind = "retry_429"
            /\ call[c].sleeps[Len(call[c].sleeps)].seconds =
                   (IF call[c].retry_after.present /\ call[c].retry_after.numeric
                    THEN call[c].retry_after.seconds
                    ELSE retry_429_delay)

\* The pipeline client, configured with a retry_429_delay of 10, got a 429
\* with Retry-After: 2 and sleeps 10 seconds.
C28_Witness ==
    /\ client # <<>>
    /\ client.pc = "sleep"
    /\ client.retry_429_delay = 10
    /\ client.answer.retry_after = RetryAfter(2)
    /\ client.waits = <<10>>

-----------------------------------------------------------------------------
(* The order in which permits are taken.                                   *)

\* The permits a coroutine holds, read off its position: an endpoint run is
\* inside `async with self.endpoint_semaphore` from its first list request to
\* its return, a detail call inside `async with self.detail_semaphore` once
\* it has entered fetch_object_detail, and a request inside `async with
\* self.api_semaphore` while make_request runs.
HoldsEndpointPermit(t) == run[t].pc \in {"list", "list_wait", "gather"}
HoldsDetailPermit(d) == d.st \in {"wait_api", "inflight"}
HoldsApiPermit(d) == d.st = "inflight"

\* C29: permits are nested endpoint, then API call, then detail call: a
\* detail call holds its detail permit only while it holds the API permit of
\* that call, and a list or detail request holds an API permit only inside a
\* run that holds its endpoint permit.
C29_NestingOrder ==
    \A t \in DOMAIN run :
        /\ \A i \in DOMAIN run[t].det :
               HoldsDetailPermit(run[t].det[i]) => HoldsApiPermit(run[t].det[i])
        /\ (\/ run[t].pc = "list_wait"
            \/ \E i \in DOMAIN run[t].det : HoldsApiPermit(run[t].det[i])) =>
               HoldsEndpointPermit(t)

\* The order the permits are taken in: endpoint, then detail call, then API
\* call.
C29_EndpointDetailApi ==
    \A t \in DOMAIN run :
        /\ \A i \in DOMAIN run[t].det :
               /\ HoldsApiPermit(run[t].det[i]) => HoldsDetailPermit(run[t].det[i])
               /\ HoldsDetailPermit(run[t].det[i]) => HoldsEndpointPermit(t)
        /\ run[t].pc = "list_wait" => HoldsEndpointPermit(t)

\* A detail call holds the only detail permit and waits for the API permit,
\* which a list request of another endpoint holds.
C29_Witness ==
    \E t, u \in DOMAIN run :
        /\ run[t].pc = "gather"
        /\ \E i \in DOMAIN run[t].det : run[t].det[i].st = "wait_api"
        /\ detail_semaphore = 0
        /\ run[u].pc = "list_wait"
        /\ api_semaphore = 0

-----------------------------------------------------------------------------
(* The order of the requests of one endpoint run.                          *)

\* The list requests of a run that have been answered: one per page that was
\* parsed, and the one that failed.
ListAnswered(r) == Len(r.pages) + (IF r.failed_at > 0 THEN 1 ELSE 0)

\* The run has started on its detail calls.
DetailsStarted(r) == r.det # <<>> \/ r.detail_calls > 0

\* C30: within one endpoint run at most one list request is unanswered at
\* any time, and it is unanswered exactly while the run awaits it, so that
\* request k+1 is sent only after page k was received and parsed; and once a
\* detail call of the run exists, the run sends no further list request.
C30_PagesInSequence ==
    /\ [](\A t \in DOMAIN run :
             /\ Len(run[t].reqs) - ListAnswered(run[t]) \in {0, 1}
             /\ Len(run[t].reqs) - ListAnswered(run[t]) = 1 <=> run[t].pc = "list_wait"
             /\ DetailsStarted(run[t]) => run[t].pc \in {"gather", "returned"})
    /\ [][\A t \in DOMAIN run :
             DetailsStarted(run[t]) => run'[t].reqs = run[t].reqs]_vars

\* A run fetched two pages one after the other, then made a detail call.
C30_Witness ==
    \E t \in DOMAIN run :
        /\ run[t].reqs = <<"", "c1">>
        /\ Len(run[t].pages) = 2
        /\ run[t].pc = "gather"
        /\ run[t].detail_calls >= 1

-----------------------------------------------------------------------------
(* The objects of a page.                                                  *)

\* The first of the keys 'data', 'results', 'items', singular, plural that a
\* mapping body offers ("" when it offers none).
FirstOffered(m) ==
    IF "data" \in DOMAIN m THEN "data"
    ELSE IF "results" \in DOMAIN m THEN "results"
    ELSE IF "items" \in DOMAIN m THEN "items"
    ELSE IF "singular" \in DOMAIN m THEN "singular"
    ELSE IF "plural" \in DOMAIN m THEN "plural"
    ELSE ""

\* C31: the objects taken from a fetched page are the array itself for a bare
\* array, the list under the first of the keys 'data', 'results', 'items',
\* singular, plural that a mapping body offers, and the body itself as the
\* only object for a mapping body that offers none of them, with or without
\* an 'id'.
C31_PageObjects ==
    \A t \in DOMAIN run :
        \A i \in DOMAIN run[t].pages :
            LET page == run[t].pages[i]
                key == FirstOffered(page.data.m)
            IN  /\ page.data.shape = "array" => page.objects = page.data.items
                /\ (page.data.shape = "mapping" /\ key = "") =>
                       page.objects = <<BodyObject>>
                /\ (page.data.shape = "mapping" /\ key # "" /\ page.data.m[key].is_list) =>
                       page.objects = page.data.m[key].items

\* A mapping body with none of the keys and no 'id' was fetched and gave a
\* page without objects.
C31_Witness ==
    \E t \in DOMAIN run :
        /\ Len(run[t].pages) = 1
        /\ run[t].pages[1].data.shape = "mapping"
        /\ run[t].pages[1].data.m = <<>>
        /\ ~run[t].pages[1].data.id
        /\ run[t].pages[1].objects = <<>>
        /\ run[t].pc = "returned"
        /\ run[t].result.reason = "no_entities_discovered"

\* A body with an empty list under 'data' and an object under 'results' gave
\* the object under 'results'.
C31_SecondKeyTaken ==
    \E t \in DOMAIN run :
        \E i \in DOMAIN run[t].pages :
            /\ run[t].pages[i].data.shape = "mapping"
            /\ DOMAIN run[t].pages[i].data.m = {"data", "results"}
            /\ run[t].pages[i].objects = run[t].pages[i].data.m["results"].items
            /\ run[t].pages[i].objects # <<>>

\* What the code does: the first of the keys whose value is truthy is taken,
\* and a body where no key has a truthy value is one object only when it has
\* a truthy 'id'.
C31_FirstTruthyKey ==
    \A t \in DOMAIN run :
        \A i \in DOMAIN run[t].pages :
            LET page == run[t].pages[i]
                truthy == [k \in {j \in DOMAIN page.data.m : Truthy(page.data.m[j])} |->
                              page.data.m[k]]
                key == FirstOffered(truthy)
            IN  /\ page.data.shape = "array" => page.objects = page.data.items
                /\ (page.data.shape = "mapping" /\ key = "") =>
                       page.objects = (IF page.data.id THEN <<BodyObject>> ELSE <<>>)
                /\ (page.data.shape = "mapping" /\ key # "") =>
                       page.objects = page.data.m[key].items

-----------------------------------------------------------------------------
(* Endpoints flagged list_only.                                            *)

\* The run of an endpoint that the catalog flags list_only.
ListOnlyRun(t) == t.idx > 0 /\ resource_endpoints[t.type].list_only

\* The objects of the pages a run fetched.
Listed(r) ==
    UNION {{r.pages[i].objects[j] : j \in DOMAIN r.pages[i].objects} : i \in DOMAIN r.pages}

\* C32: the run of an endpoint flagged list_only makes no detail call at any
\* time, and when it returns success every stored object is an object as
\* listed (all of them with test mode off), detailed_objects equals
\* total_objects and fallback_objects is 0.
C32_ListOnly ==
    \A t \in DOMAIN run :
        ListOnlyRun(t) =>
            /\ run[t].detail_calls = 0
            /\ run[t].det = <<>>
            /\ (run[t].pc = "returned" /\ run[t].result.status = "success") =>
                   /\ run[t].result.detailed_objects = run[t].result.total_objects
                   /\ run[t].result.fallback_objects = 0
                   /\ run[t].bodies \subseteq Listed(run[t])
                   /\ ~test_mode => run[t].bodies = Listed(run[t])

\* The grants of a resource were listed on two pages and the run returned
\* success with three objects, all counted as detailed, after two requests.
C32_Witness ==
    \E t \in DOMAIN run :
        /\ ListOnlyRun(t)
        /\ run[t].pc = "returned"
        /\ run[t].result.status = "success"
        /\ run[t].result.total_objects = 3
        /\ run[t].result.detailed_objects = 3
        /\ Len(run[t].reqs) = 2
        /\ run[t].detail_calls = 0

-----------------------------------------------------------------------------
(* Malformed objects and the extraction of resource ids.                   *)

\* The items of a fetch with every malformed object replaced by one that
\* references no resource.
WithoutMalformed(items) ==
    [k \in DOMAIN items |->
        IF HasMalformedTarget(items[k]) THEN Object(items[k].id, "", <<>>) ELSE items[k]]

\* C33: a malformed reviews or campaigns object never fails the backup. In
\* _run_pipeline_async the entry of summary.written for a global endpoint
\* whose fetch and sink write returned is the number of records, and the
\* collected ids hold every id of its well-formed objects, as they would
\* with the malformed object referencing no resource; in OktaIGABackupAsync
\* a run whose listed objects include a malformed one still returns its
\* object count, and the registry holds the ids of every well-formed body
\* whose detail call has been stored.
C33_ExtractionFailureSwallowed ==
    /\ pipe # <<>> =>
           \A i \in GlobalFetchesWithItems :
               \A j \in WritesUnder(pipe.fetched[i].name) :
                   ~pipe.sink[j].raised =>
                       /\ pipe.written[pipe.fetched[i].name] =
                              Written(Len(pipe.sink[j].records))
                       /\ ResourceIdsFrom(pipe.fetched[i].name, WithoutMalformed(Kept(i)))
                              \subseteq pipe.resource_ids
    /\ \A t \in GlobalTasks :
           /\ \A i \in DOMAIN run[t].det :
                  (/\ run[t].det[i].st \in {"detailed", "fallback"}
                   /\ ~HasMalformedTarget(run[t].det[i].data)) =>
                      ExtractResourceIds(run[t].det[i].data, run[t].name)
                          \subseteq collected_resource_ids
           /\ (run[t].pc = "returned" /\ run[t].result.status = "success") =>
                  run[t].result.total_objects =
                      (IF test_mode THEN 1 ELSE SumSeq(PageSizes(run[t])))

\* The fetch of campaigns returned a malformed object and a well-formed one
\* referencing r1 and r2, the sink wrote both records, and the summary holds
\* an error text for campaigns and none of the ids.
C33_Witness ==
    /\ pipe # <<>>
    /\ pipe.pc = "done"
    /\ \E i \in GlobalFetchesWithItems :
           /\ pipe.fetched[i].name = "campaigns"
           /\ pipe.fetched[i].items = <<ObjMalformed, ObjA>>
           /\ pipe.object_limit = -1
           /\ \E j \in WritesUnder("campaigns") :
                  ~pipe.sink[j].raised /\ Len(pipe.sink[j].records) = 2
    /\ pipe.written["campaigns"] = WrittenError
    /\ pipe.resource_ids = {}

\* The half of C33 about OktaIGABackupAsync on its own.
C33_BackupSwallows ==
    \A t \in GlobalTasks :
        /\ \A i \in DOMAIN run[t].det :
               (/\ run[t].det[i].st \in {"detailed", "fallback"}
                /\ ~HasMalformedTarget(run[t].det[i].data)) =>
                   ExtractResourceIds(run[t].det[i].data, run[t].name)
                       \subseteq collected_resource_ids
        /\ (run[t].pc = "returned" /\ run[t].result.status = "success") =>
               run[t].result.total_objects =
                   (IF test_mode THEN 1 ELSE SumSeq(PageSizes(run[t])))

\* A campaigns run listed a malformed object beside a well-formed one and
\* returned success with two objects; the registry holds the ids of the
\* well-formed one and the id read before the malformed entry.
C33_BackupWitness ==
    \E t \in GlobalTasks :
        /\ t.type = "campaigns"
        /\ ~test_mode
        /\ run[t].pc = "returned"
        /\ run[t].result.status = "success"
        /\ run[t].result.total_objects = 2
        /\ ObjMalformed \in run[t].bodies
        /\ collected_resource_ids = {"r1", "r2", "r3"}

-----------------------------------------------------------------------------
\* C34: the registry of collected resource ids only grows: no step removes
\* an id from it, and no step taken once phase 2 has started (or after the
\* run is done) changes it, so that the set phase 2 starts with is the set
\* the run ends with.
C34_RegistryAppendOnly ==
    /\ [][collected_resource_ids \subseteq collected_resource_ids']_vars
    /\ [][(orch \in {"phase2", "done"}) => UNCHANGED collected_resource_ids]_vars

\* A finished run whose phase 2 fetched, with a detail call answered, an
\* object that references a resource the registry does not hold: the
\* registry still is what phase 1 collected.
C34_Witness ==
    /\ orch = "done"
    /\ collected_resource_ids = {"r1"}
    /\ \E t \in DOMAIN run :
          /\ t.idx > 0
          /\ run[t].pc = "returned"
          /\ run[t].result.status = "success"
          /\ run[t].result.detailed_objects >= 1
          /\ ObjA \in run[t].bodies

-----------------------------------------------------------------------------
\* The fetches _run_pipeline_async has made for resource endpoints.
ResourceFetched ==
    {i \in DOMAIN pipe.fetched : pipe.fetched[i].name \in DOMAIN resource_endpoints}

\* C35: in _run_pipeline_async, when the global endpoints yielded no resource
\* id, no fetch is made for any enabled resource endpoint.
C35_NoFetchWithoutIds ==
    (pipe # <<>> /\ pipe.pc \in {"resource", "done", "raised"} /\ pipe.targets = <<>>) =>
        ResourceFetched = {}

\* A call that collected no resource id and fetched request_conditions once,
\* without a resource id.
C35_Witness ==
    /\ pipe # <<>>
    /\ pipe.pc = "done"
    /\ pipe.resource_ids = {}
    /\ pipe.targets = <<>>
    /\ \E i \in ResourceFetched :
          /\ pipe.fetched[i].name = "request_conditions"
          /\ pipe.fetched[i].rid = ""

\* What the loop does without resource ids: an endpoint that requires a
\* filter is not fetched and is reported with 0 records, any other is
\* fetched exactly once, without a resource id.
C35_OnlyFilterEndpointsSkipped ==
    (pipe # <<>> /\ pipe.pc = "done" /\ pipe.targets = <<>>) =>
        \A name \in DOMAIN resource_endpoints :
            LET fetches == {i \in ResourceFetched : pipe.fetched[i].name = name}
            IN  IF name \notin DOMAIN pipe.written THEN fetches = {}
                ELSE IF resource_endpoints[name].requires_filter
                THEN fetches = {} /\ pipe.written[name] = Written(0)
                ELSE Cardinality(fetches) = 1 /\ \A i \in fetches : pipe.fetched[i].rid = ""

\* A call that collected no resource id and skipped grants.
C35_SkippedWitness ==
    /\ pipe # <<>>
    /\ pipe.pc = "done"
    /\ pipe.targets = <<>>
    /\ "grants" \in DOMAIN pipe.written
    /\ pipe.written["grants"] = Written(0)

-----------------------------------------------------------------------------
\* callers whose call of process_filter_endpoint is over
Probed == {c \in DOMAIN call : call[c].pc \in {"returned", "raised"}}

\* no step changes the total_objects of the summary
TotalUnchanged == backup_summary'.total_objects = backup_summary.total_objects

C36_RaisedWitness ==
    \E c \in Probed :
        /\ call[c].result = "raised"
        /\ call[c].gets = 0
        /\ Entries[FilterEndpoint(c)].reason = "exception"

-----------------------------------------------------------------------------
\* the sub-runs of resource endpoint e that returned success
Succeeded(e) ==
    {i \in DOMAIN available_resources : run[STask(e, i)].result.status = "success"}

\* C37: the entry of a resource endpoint processed over a non-empty list of
\* resource ids aggregates all its sub-runs, in whatever order they ended:
\* successful_resources + failed_resources = resources_processed = the
\* number of ids, the status is success exactly when some sub-run succeeded,
\* and total_objects is the sum of the total_objects of the successful
\* sub-runs.
C37_Aggregates ==
    \A e \in DOMAIN rend :
        (rend[e].pc = "returned" /\ available_resources # <<>>) =>
            /\ Entries[e].successful_resources + Entries[e].failed_resources
                   = Entries[e].resources_processed
            /\ Entries[e].resources_processed = Len(available_resources)
            /\ Entries[e].successful_resources = Cardinality(Succeeded(e))
            /\ Entries[e].status = "success" <=> Succeeded(e) # {}
            /\ Entries[e].total_objects =
                   SumSeq([i \in DOMAIN available_resources |->
                              IF i \in Succeeded(e)
                              THEN run[STask(e, i)].result.total_objects ELSE 0])

\* A resource endpoint processed over two ids, of which the sub-run of the
\* second succeeded with an object and the sub-run of the first did not.
C37_Witness ==
    \E e \in DOMAIN rend :
        /\ rend[e].pc = "returned"
        /\ Len(available_resources) = 2
        /\ Succeeded(e) = {2}
        /\ Entries[e].status = "success"
        /\ Entries[e].total_objects = 1
        /\ Entries[e].successful_resources = 1
        /\ Entries[e].failed_resources = 1

-----------------------------------------------------------------------------
\* callers inside `async with self.rate_limit_lock`: the section has no
\* await but its sleep, so a caller is seen inside it only while it sleeps
InSection == {c \in DOMAIN call : call[c].pc = "rate_limit_sleep"}

\* admissions completed by all callers in the window that started at start_time
AdmissionsIn(start_time) ==
    SumSeq([c \in DOMAIN call |->
               Cardinality({i \in DOMAIN call[c].admissions :
                               call[c].admissions[i] = start_time})])

\* C38: at most one caller is inside the section of check_rate_limit that
\* reads, resets, checks and raises the window counters, a sleeping caller
\* included, and it is the holder of the lock; no increment is lost:
\* request_count is the number of admissions completed in the current
\* window.
C38_MutualExclusion ==
    call # <<>> =>
        /\ Cardinality(InSection) <= 1
        /\ \A c \in InSection : limiter.rate_limit_lock = c
        /\ limiter.rate_limit_lock # 0 => limiter.rate_limit_lock \in InSection
        /\ limiter.request_count = AdmissionsIn(limiter.start_time)

\* Two admissions were completed in one window, the second by a caller that
\* had waited for the lock while the first slept inside it.
C38_Witness ==
    /\ call # <<>>
    /\ limiter.request_count = 2
    /\ \E c, d \in DOMAIN call :
          /\ c # d
          /\ Admitted(c) /\ SleptForRateLimit(c)
          /\ Admitted(d)
          /\ call[d].found.current_time >= call[c].found.current_time
                                             + call[c].sleeps[1].seconds
          /\ call[c].admissions = <<limiter.start_time>>
          /\ call[d].admissions = <<limiter.start_time>>

-----------------------------------------------------------------------------
\* the sleeps check_rate_limit took in the caller's current call
RateLimitSleeps(c) ==
    {i \in DOMAIN call[c].sleeps : call[c].sleeps[i].kind = "rate_limit"}

\* a caller that leaves the sleep of check_rate_limit is admitted, whatever
\* the budget is by then
AdmittedAfterSleep ==
    \A c \in DOMAIN call :
        (call[c].pc = "rate_limit_sleep" /\ call'[c].pc # "rate_limit_sleep") =>
            /\ call'[c].pc = "get"
            /\ limiter'.request_count = limiter.request_count + 1

\* C39: the rate limiter never blocks a caller forever: every caller of
\* check_rate_limit is eventually admitted, sleeps at most once in an
\* admission and is admitted after the sleep without another budget check.
C39_EventuallyAdmitted ==
    /\ \A c \in Callers : (call[c].pc = "check_rate_limit") ~> Admitted(c)
    /\ [](\A c \in Callers : Cardinality(RateLimitSleeps(c)) <= 1)
    /\ [][AdmittedAfterSleep]_vars

\* A caller whose check_rate_limit ended without an admission: with a rate
\* of 0 and the budget used up, make_request has raised and no GET was sent.
C39_Witness ==
    \E c \in Callers :
        /\ limiter.rate_limit_per_minute = 0
        /\ call[c].pc = "raised"
        /\ call[c].found.request_count >= call[c].found.available_requests
        /\ call[c].gets = 0
        /\ call[c].admissions = <<>>

\* What holds of the code: with a positive rate every caller of
\* check_rate_limit is eventually admitted, after at most one sleep and
\* without another budget check; with a rate of 0 a caller that finds the
\* budget used up is never admitted.
C39_AdmittedAtPositiveRate ==
    /\ \A c \in Callers :
          (call[c].pc = "check_rate_limit" /\ limiter.rate_limit_per_minute > 0)
              ~> Admitted(c)
    /\ [](\A c \in Callers : Cardinality(RateLimitSleeps(c)) <= 1)
    /\ [][AdmittedAfterSleep]_vars
    /\ [](\A c \in Callers : call[c].pc = "raised" => limiter.rate_limit_per_minute = 0)

\* A caller was admitted after its one sleep while another caller, holding
\* an API permit, was queued on the lock.
C39_QueuedWitness ==
    \E c, d \in Callers :
        /\ call[c].pc = "get"
        /\ Cardinality(RateLimitSleeps(c)) = 1
        /\ call[d].pc = "check_rate_limit"
        /\ limiter.rate_limit_per_minute > 0

-----------------------------------------------------------------------------
\* The steps run_complete_backup may take between its positions: from the
\* start to phase 1, from phase 1 to phase 2, from phase 2 to the written
\* summary; a run with no task to start in phase 2 passes through phase 2
\* and the writing of the summary in the segment that ends phase 1, there
\* being no await between lines 637 and 677.
InOrder ==
    \/ orch' = orch
    \/ orch = "init" /\ orch' = "phase1"
    \/ orch = "phase1" /\ orch' = "phase2"
    \/ orch = "phase2" /\ orch' = "done"
    \/ orch = "phase1" /\ orch' = "done" /\ rend' = <<>>

\* the summary is written in the step that ends the run, and once it is
\* written neither it nor the number of writes changes
WrittenLast ==
    /\ summary_writes' # summary_writes =>
           summary_writes' = 1 /\ orch # "done" /\ orch' = "done"
    /\ summary_writes = 1 => backup_summary' = backup_summary

\* C40: a run goes from its start through phase 1, phase 2 and the writing
\* of the summary to its end, in that order and never backwards; the summary
\* is written exactly once, when every task of phase 1 and of phase 2 has
\* returned, and no entry is added to it or changed afterwards.
C40_RunOrder ==
    /\ [][InOrder]_vars
    /\ [][WrittenLast]_vars
    /\ [](summary_writes = (IF orch = "done" THEN 1 ELSE 0))
    /\ [](orch = "done" =>
              /\ \A e \in DOMAIN rend : rend[e].pc = "returned"
              /\ \A t \in DOMAIN run : run[t].pc = "returned"
              /\ enabled_resource \cap DOMAIN rend \subseteq DOMAIN Entries)

\* The summary was written after a phase 2 whose resource endpoint recorded
\* its entry over two sub-runs.
C40_Witness ==
    /\ orch = "done"
    /\ summary_writes = 1
    /\ \E e \in DOMAIN rend :
          /\ rend[e].pc = "returned"
          /\ e \in DOMAIN Entries
          /\ Entries[e].resources_processed = 2

=============================================================================
